---- MODULE Spec2Model ----
(***************************************************************************)
(* git-toolbox: the staging pipeline (src/stage.rs, repository/diff.rs,    *)
(* repository/staging_area.rs) and the dictionary splitter                 *)
(* (toolbox/scanner.rs, toolbox/dictionary/...).                           *)
(*                                                                         *)
(* A path is a sequence of segments ("d1.contents/x/a.txt" is              *)
(* <<"d1.contents", "x", "a.txt">>); the empty sequence is the working     *)
(* tree root.  File contents are opaque byte strings ("c1", "c2", ...).    *)
(***************************************************************************)
EXTENDS Integers, Sequences, FiniteSets, TLC

\* ------------------------------------------------------------------ bounds
\* tracked content files in the index when `stage` starts
MaxTracked == 2
\* content objects produced by the splitters, over all dictionaries
MaxObjects == 2
\* files edited outside of the tool before `stage` starts
MaxExternal == 1
\* lines of a dictionary text after its header
MaxLines == 3

VARIABLES
    ignore_case,      \* core.ignorecase: the platform folds the case of paths
    cwd,              \* current directory of the process: "workdir" or "elsewhere"
    discard_workdir_changes, \* --discard-external-changes
    clobs,            \* per dictionary: the content objects Dictionary::split yields
    head,             \* paths of the HEAD tree
    index,            \* the repository's in-memory index: path -> blob id
    index_file,       \* the index as written on disk
    index_writes,     \* number of index.write() calls so far
    worktree,         \* files of the working tree: path -> content
    dirs,             \* directories of the working tree
    stray,            \* files written relative to a cwd that is not the workdir
    pc,               \* position of stage()
    result,           \* what stage() returned
    summaries,        \* Vec<StagedFileSummary>, per dictionary
    cur,              \* stage_changes: position in the summaries
    todo,             \* stage_diffs: the diffs of the batch not yet visited
    deleted_path_parents, \* stage_diffs: parents of the deleted paths
    start,            \* the tree, index and directories when stage() was called
    config,           \* DictionaryConfig of the dictionary that is loaded
    text,             \* the text of the dictionary file
    scanner,          \* Scanner: the fields of the struct
    phase,            \* position of Dictionary::load and Dictionary::split
    issues,           \* Vec<ToolboxFileIssue>
    splitter,         \* the local variables of split
    yielded,          \* every item Scanner::next has returned, in order
    objects,          \* the content objects split returns
    load_error,       \* the error Dictionary::load returned, or none
    index_lock,       \* the file index.lock exists in the repository directory
    clean_path,       \* clean: the managed file the filter is run for
    report,           \* clean: what do_clean returned, or none
    stdout,           \* clean: what was written to standard output
    prefix_name,      \* the argument of build_path_prefix
    prefix,           \* the value build_path_prefix returned
    index_blobs,      \* reconstruct: the index entries under the path
    rev_blobs,        \* reconstruct: the tree of the revision at the path
    rev,              \* reconstruct: the revision spec (empty means index)
    bytes_out,        \* reconstruct: the bytes returned
    reconstructed,    \* reconstruct: "none", "Ok" or the error returned
    line_text,        \* the argument of ParsedLine::from
    parsed_line       \* the value ParsedLine::from returned, or none

stage_vars == << ignore_case, cwd, discard_workdir_changes, clobs, head,
                 index, index_file, index_writes, worktree, dirs, stray, pc,
                 result, summaries, cur, todo, deleted_path_parents, start >>

split_vars == << config, text, scanner, phase, issues, splitter,
                 yielded, objects, load_error >>

filter_vars == << index_lock, clean_path, report, stdout >>

util_vars == << prefix_name, prefix >>

reconstruct_vars == << index_blobs, rev_blobs, rev, bytes_out, reconstructed >>

line_vars == << line_text, parsed_line >>

vars == << stage_vars, split_vars, filter_vars, util_vars, reconstruct_vars,
           line_vars >>

\* no dictionary is being split
split_idle ==
    /\ config = << >>
    /\ text = << >>
    /\ scanner = << >>
    /\ phase = "idle"
    /\ issues = << >>
    /\ splitter = << >>
    /\ yielded = << >>
    /\ objects = { }
    /\ load_error = [ kind |-> "None" ]

\* the clean filter is not running, and no other process holds the index
filter_idle ==
    /\ index_lock = FALSE
    /\ clean_path = << >>
    /\ report = [ kind |-> "None" ]
    /\ stdout = << >>

\* build_path_prefix is not being called
util_idle ==
    /\ prefix_name = << >>
    /\ prefix = << >>

\* reconstruct is not being called
reconstruct_idle ==
    /\ index_blobs = << >>
    /\ rev_blobs = << >>
    /\ rev = ""
    /\ bytes_out = << >>
    /\ reconstructed = "none"

\* ParsedLine::from is not being called
line_idle ==
    /\ line_text = << >>
    /\ parsed_line = [ kind |-> "None" ]

\* ------------------------------------------------------------------ paths

\* repo.config().dictionaries, in configuration order (cfg.path of each)
Dictionaries == << "d1", "d2" >>

\* Dictionary::contents_root: format!("{}.contents", cfg.path)
contents_root(d) == << d \o ".contents" >>

\* the relative paths the splitter of a dictionary can produce
ClobPaths(d) ==
    IF d = "d1" THEN { <<"x", "a.txt">>, <<"x", "A.txt">>, <<"y", "b.txt">> }
    ELSE IF d = "d2" THEN { <<"z", "c.txt">> }
    ELSE { <<"n", "c2.txt">>, <<"n", "c10.txt">> }

\* format!("{}/{}", &root, &clob.path)
full_path(root, rel) == root \o rel

\* a file under a contents root that is not a content object
OtherFile == << "d2.contents", "z", "n.dat" >>

ContentPaths == UNION { { full_path(contents_root(Dictionaries[i]), r) :
                            r \in ClobPaths(Dictionaries[i]) } :
                        i \in DOMAIN Dictionaries }

\* str::to_lowercase on one path segment
lower_segment(s) == IF s = "A.txt" THEN "a.txt" ELSE s

\* str::to_lowercase
to_lowercase(p) == [ i \in DOMAIN p |-> lower_segment(p[i]) ]

\* path_bytes().ends_with(b".txt")
ends_with_txt(p) ==
    /\ p # << >>
    /\ p[Len(p)] \in { "a.txt", "A.txt", "b.txt", "c.txt", "c2.txt",
                        "c10.txt" }

\* str::is_ascii: every name of the model is ASCII
is_ascii(p) == \A i \in DOMAIN p : p[i] \in
    { "d1.contents", "d2.contents", "d3.contents", "d1", "d2", "d3", "x",
      "y", "z", "n", "a.txt", "A.txt", "b.txt", "c.txt", "c2.txt",
      "c10.txt", "n.dat" }

\* Path::parent
parent(p) == SubSeq(p, 1, Len(p) - 1)

\* pathspec match: the entry lies under the root
under(root, p) == Len(p) > Len(root) /\ SubSeq(p, 1, Len(root)) = root

\* all directories above a path, the working-tree root excluded
ancestors(p) == { SubSeq(p, 1, n) : n \in 1 .. (Len(p) - 1) }

\* ------------------------------------------------------------------ maps
Put(f, k, v) == [ x \in (DOMAIN f) \cup {k} |-> IF x = k THEN v ELSE f[x] ]
Drop(f, k)   == [ x \in (DOMAIN f) \ {k} |-> f[x] ]

\* the names a platform takes for the same file or index entry
same_path(ic, p, q) == IF ic THEN to_lowercase(p) = to_lowercase(q) ELSE p = q

\* the key under which `p` is stored in a path-keyed map, or p itself
stored_key(ic, f, p) ==
    IF \E q \in DOMAIN f : same_path(ic, p, q)
    THEN CHOOSE q \in DOMAIN f : same_path(ic, p, q)
    ELSE p

has_path(ic, f, p) == \E q \in DOMAIN f : same_path(ic, p, q)


\* ------------------------------------------------------------------ store

\* repository::MANAGED_FILE_TEXT, the placeholder staged for a managed file
MANAGED_FILE_TEXT == "This file is managed by git-toolbox."

\* Oid::hash_object(ObjectType::Blob, bytes): one id per byte string
hash_object(bytes) == "oid:" \o bytes

\* repo.find_blob(id).content()
find_blob(id) ==
    CHOOSE bytes \in { "c1", "c2", "c3", "text", MANAGED_FILE_TEXT } :
        hash_object(bytes) = id

\* index.get_path(path, 0): the entry (its stored path and id), or none
NoEntry == [ found |-> FALSE ]
index_get_path(p) ==
    IF has_path(ignore_case, index, p)
    THEN LET q == stored_key(ignore_case, index, p)
         IN  [ found |-> TRUE, path |-> q, id |-> index[q] ]
    ELSE NoEntry

\* StatusOptions::new() sets no flag: untracked files are not listed unless
\* include_untracked(true) is called, and no caller does
include_untracked == FALSE

\* the status flags git reports for a path (HEAD against index, index
\* against working tree)
status_flags(p) ==
    LET in_head  == \E q \in head : same_path(ignore_case, p, q)
        in_index == has_path(ignore_case, index, p)
        in_wt    == has_path(ignore_case, worktree, p)
        on_disk  == worktree[stored_key(ignore_case, worktree, p)]
    IN  [ index_deleted |-> in_head /\ ~in_index,
          index_new     |-> in_index /\ ~in_head,
          wt_new        |-> include_untracked /\ ~in_index /\ in_wt,
          wt_deleted    |-> in_index /\ ~in_wt,
          wt_modified   |-> in_index /\ in_wt /\
                            hash_object(on_disk) #
                                index[stored_key(ignore_case, index, p)] ]

is_current(st) ==
    ~( st.index_deleted \/ st.index_new \/ st.wt_new \/ st.wt_deleted
       \/ st.wt_modified )

\* repo.statuses(options) with options.pathspec(root): one entry per path of
\* HEAD, the index and (when asked for) the untracked files under the root
statuses(root, include_unmodified) ==
    LET listed == (DOMAIN index)
                  \cup { q \in head : ~has_path(ignore_case, index, q) }
                  \cup { q \in DOMAIN worktree :
                           include_untracked
                           /\ ~has_path(ignore_case, index, q) }
    IN  { p \in listed :
            /\ under(root, p)
            /\ (include_unmodified \/ ~is_current(status_flags(p))) }

\* ------------------------------------------------------------------ diff.rs

\* ClobDiff::path
diff_path(diff) == IF diff.kind = "Delete" THEN diff.path ELSE diff.clob.path

\* ClobValidationIssue::path
issue_path(issue) == IF issue.kind = "InvalidPath" THEN << >> ELSE issue.path

\* Repository::validate_clobs_in_workdir
validate_clobs_in_workdir(root) ==
    LET issue_of(p) ==
            LET st == status_flags(p)
            IN  IF ~is_ascii(p)
                  THEN { [ kind |-> "InvalidPath", path |-> p ] }
                ELSE IF st.wt_new
                  THEN { [ kind |-> "AddedInWorkdir", path |-> p ] }
                ELSE IF st.wt_modified
                  THEN { [ kind |-> "UpdatedInWorkdir", path |-> p ] }
                ELSE IF st.wt_deleted
                  THEN { [ kind |-> "DeletedInWorkdir", path |-> p ] }
                ELSE { }
    IN  UNION { issue_of(p) :
                  p \in { q \in statuses(root, FALSE) : ends_with_txt(q) } }

\* diff_clobs_at_path, lines 215-249: the set of clobs at the path
clobset_at(root) ==
    { to_lowercase(p) :
        p \in { q \in statuses(root, TRUE) :
                  /\ ends_with_txt(q)
                  /\ ~status_flags(q).index_deleted } }

\* variant of clob_diff that never compares: every object with an entry is
\* an Update
clob_diff_no_compare(root, c) ==
    LET clob  == [ path |-> full_path(root, c.path), content |-> c.content ]
    IN  IF index_get_path(clob.path).found
        THEN { [ kind |-> "Update", clob |-> clob ] }
        ELSE { [ kind |-> "Add", clob |-> clob ] }

\* diff_clobs_at_path, lines 257-283: the actions (none or one) for one clob
\* of the stream
clob_diff(root, c) ==
    LET clob  == [ path |-> full_path(root, c.path), content |-> c.content ]
        entry == index_get_path(clob.path)
    IN  IF entry.found
        THEN LET oid == hash_object(clob.content)
             IN  IF oid # entry.id \/ find_blob(entry.id) # clob.content
                 THEN { [ kind |-> "Update", clob |-> clob ] }
                 ELSE { }
        ELSE { [ kind |-> "Add", clob |-> clob ] }

\* variant of unclaimed that removes the path as it is, not lower-cased
unclaimed_exact(root, stream) ==
    clobset_at(root) \ { full_path(root, c.path) : c \in stream }

\* diff_clobs_at_path, line 263: the keys the stream leaves in the clobset
unclaimed(root, stream) ==
    clobset_at(root) \
        { to_lowercase(full_path(root, c.path)) : c \in stream }

\* diff_clobs_at_path, lines 291-295: all files still in the set
deletions(root, stream) ==
    { [ kind |-> "Delete", path |-> key ] : key \in unclaimed(root, stream) }

\* Repository::diff_clobs_at_path.  diff_list is a Vec: the Add and Update
\* actions in the order of the stream, then the Delete actions in the
\* iteration order of the clobset.  Both orders are those of a hash table,
\* and every path occurs once, so the list is kept as the set of its
\* elements; stage_diffs draws the order when it takes the next element.
diff_clobs_at_path(root, stream) ==
    UNION { clob_diff(root, c) : c \in stream } \cup deletions(root, stream)


\* ------------------------------------------------------------------ stage.rs

DictionarySet == { Dictionaries[i] : i \in DOMAIN Dictionaries }

\* StagedFileSummary::new: the summary of one dictionary whose splitter
\* yields the stream
summary_of(d, stream) ==
    [ path           |-> << d >>,
      contents_path  |-> contents_root(d),
      unstaged_diff  |-> diff_clobs_at_path(contents_root(d), stream),
      workdir_issues |-> validate_clobs_in_workdir(contents_root(d)) ]

\* stage, lines 55-64: the summaries of all dictionaries
all_summaries(streams) ==
    [ d \in DictionarySet |-> summary_of(d, streams[d]) ]

\* StagedFileSummary::any_workdir_issues
any_workdir_issues(summary) == summary.workdir_issues # { }

\* StagedFileSummary::workdir_changes_will_be_lost
workdir_changes_will_be_lost(summary) ==
    LET externally_modified_clobs ==
            { issue_path(issue) : issue \in summary.workdir_issues }
    IN  \E diff \in summary.unstaged_diff :
            diff_path(diff) \in externally_modified_clobs

\* StagedFileSummary::any_unstaged
any_unstaged(summary) == summary.unstaged_diff # { }

\* ------------------------------------------------------------------ files

\* the file a path names on this platform
file_key(p) == stored_key(ignore_case, worktree, p)
file_exists(p) == has_path(ignore_case, worktree, p)

\* std::fs::create_dir_all(dir)
create_dir_all(ds, dir) == ds \cup { SubSeq(dir, 1, n) : n \in 1 .. Len(dir) }

\* variant of dir_is_empty that looks at the directories of a directory
\* only
dir_holds_no_directory(files, ds, dir) ==
    \A e \in ds : e = << >> \/ parent(e) # dir

\* fs::remove_dir succeeds on an existing, empty directory
dir_is_empty(files, ds, dir) ==
    /\ \A f \in DOMAIN files : parent(f) # dir
    /\ \A e \in ds : e = << >> \/ parent(e) # dir

\* stage_diffs, lines 116-137: delete the empty folders
RECURSIVE remove_empty_parents(_, _, _)
remove_empty_parents(files, ds, parents) ==
    IF parents = { } THEN ds
    ELSE LET removable == { q \in parents :
                              /\ q # << >>
                              /\ q \in ds
                              /\ dir_is_empty(files, ds, q) }
         IN  remove_empty_parents(files, ds \ removable,
                                  { parent(q) : q \in removable })


\* ------------------------------------------------------------------ Init

\* the content objects a splitter can yield for a dictionary
ClobsOf(d) == [ path : ClobPaths(d), content : { "c1", "c2" } ]

\* Dictionary::split: a stream holds each path once
Streams(d) ==
    { st \in SUBSET ClobsOf(d) :
        /\ Cardinality(st) <= MaxObjects
        /\ \A a, b \in st : a.path = b.path => a = b }

\* no two names of the set are the same name on this platform
distinct_names(ic, S) == \A p, q \in S : same_path(ic, p, q) => p = q

ManagedFiles == { << d >> : d \in DictionarySet }

\* the content files of a set of dictionaries
content_paths(ds) ==
    UNION { { full_path(contents_root(d), r) : r \in ClobPaths(d) } :
            d \in ds }

\* the repository with the dictionaries ds before the command runs: at most
\* MaxTracked content files are tracked, at most MaxExternal of them were
\* edited or deleted in the working tree, and HEAD holds the tracked
\* files, or these and every other content file (deleted from the index
\* since)
Repository(ds) ==
    \E ic \in BOOLEAN, tracked \in SUBSET content_paths(ds) :
    \E edited \in SUBSET tracked :
    \E edit \in [ edited -> { "c3", "deleted" } ] :
        /\ Cardinality(tracked) <= MaxTracked
        /\ Cardinality(edited) <= MaxExternal
        /\ distinct_names(ic, tracked)
        /\ ignore_case = ic
        /\ cwd \in { "workdir", "elsewhere" }
        /\ head \in { tracked,
                      tracked \cup { p \in content_paths(ds) :
                                       /\ p = to_lowercase(p)
                                       /\ \A q \in tracked :
                                            to_lowercase(q) # p } }
        /\ index = [ p \in tracked \cup { OtherFile } |-> hash_object("c1") ]
        /\ index_file = index
        /\ index_writes = 0
        /\ worktree =
             [ p \in { << d >> : d \in ds } \cup { OtherFile }
                     \cup { q \in tracked :
                              q \notin edited \/ edit[q] # "deleted" } |->
                 IF Len(p) = 1 THEN "text"
                 ELSE IF p \in edited THEN edit[p]
                 ELSE "c1" ]
        /\ dirs = UNION { ancestors(p) : p \in tracked \cup { OtherFile } }
        /\ stray = { }
        /\ discard_workdir_changes = FALSE
        /\ clobs = [ d \in ds |-> { } ]
        /\ pc = "start"
        /\ result = "none"
        /\ summaries = << >>
        /\ cur = 1
        /\ todo = { }
        /\ deleted_path_parents = { }
        /\ start = [ index |-> index, worktree |-> worktree, dirs |-> dirs ]
        /\ split_idle
        /\ util_idle
        /\ reconstruct_idle
        /\ line_idle

\* the repository of the configured dictionaries; no filter is running
Init == Repository(DictionarySet) /\ filter_idle

\* ------------------------------------------------------------------ stage()

unchanged_store == UNCHANGED << head, index, index_file, index_writes,
                                worktree, dirs, stray >>
unchanged_input == UNCHANGED << ignore_case, cwd, discard_workdir_changes,
                                clobs, start, split_vars, filter_vars,
                                util_vars,
                    reconstruct_vars, line_vars >>

\* stage(paths, verbose, discard_workdir_changes), lines 37-75: a dictionary
\* cannot be loaded (file unreadable, or the dictionary header is missing):
\* abort before anything is changed
stage_load_error ==
    /\ pc = "start"
    /\ discard_workdir_changes' \in BOOLEAN
    /\ pc' = "done"
    /\ result' = "LoadError"
    /\ UNCHANGED << ignore_case, cwd, clobs, start, summaries, cur, todo,
                    deleted_path_parents, split_vars, filter_vars,
                    util_vars,
                    reconstruct_vars, line_vars >>
    /\ unchanged_store

\* stage(paths, verbose, discard_workdir_changes), lines 37-122: every
\* dictionary is loaded and split, the summaries are built, and stage
\* aborts on external modifications that would be lost (lines 90-109),
\* returns when there is nothing to do (lines 111-115) or calls
\* stage_changes
stage ==
    /\ pc = "start"
    /\ \E discard \in BOOLEAN :
       \E s1 \in Streams(Dictionaries[1]), s2 \in Streams(Dictionaries[2]) :
         LET streams == [ d \in DictionarySet |->
                            IF d = Dictionaries[1] THEN s1 ELSE s2 ]
             sm      == all_summaries(streams)
         IN  /\ Cardinality(s1) + Cardinality(s2) <= MaxObjects
             /\ discard_workdir_changes' = discard
             /\ clobs' = streams
             /\ summaries' = sm
             /\ IF /\ ~discard
                   /\ \E d \in DictionarySet :
                        workdir_changes_will_be_lost(sm[d])
                THEN pc' = "done"
                     /\ result' = "ExternalModificationsWillBeLost"
                ELSE IF ~\E d \in DictionarySet : any_unstaged(sm[d])
                THEN pc' = "done" /\ result' = "Ok"
                ELSE pc' = "stage_changes" /\ result' = result
    /\ UNCHANGED << ignore_case, cwd, start, cur, todo,
                    deleted_path_parents, split_vars, filter_vars,
                    util_vars,
                    reconstruct_vars, line_vars >>
    /\ unchanged_store

\* ------------------------------------------------------------------ stage_changes

\* stage_changes, line 195: the summaries with changes, from position k on
pending(k) == { i \in DOMAIN Dictionaries :
                  i >= k /\ any_unstaged(summaries[Dictionaries[i]]) }

next_pending(k) == CHOOSE i \in pending(k) : \A j \in pending(k) : i <= j

\* index.add_path / index.add: the entry of a path is replaced in place
index_add(idx, p, id) == Put(idx, stored_key(ignore_case, idx, p), id)

\* index.remove_path: a path that has no entry is not an error
index_remove(idx, p) ==
    IF has_path(ignore_case, idx, p)
    THEN Drop(idx, stored_key(ignore_case, idx, p))
    ELSE idx

\* variant of stage_managed_file that writes the index for each dictionary
stage_managed_file_writing ==
    /\ pc = "stage_changes"
    /\ pending(cur) # { }
    /\ LET i == next_pending(cur)
           summary == summaries[Dictionaries[i]]
       IN  /\ index' = index_add(index, summary.path,
                                 hash_object(MANAGED_FILE_TEXT))
           /\ cur' = i
           /\ todo' = summary.unstaged_diff
    /\ index_file' = index'
    /\ index_writes' = index_writes + 1
    /\ deleted_path_parents' = { }
    /\ pc' = "stage_diffs"
    /\ UNCHANGED << head, worktree, dirs, stray, result, summaries >>
    /\ unchanged_input

\* StagingArea::stage_managed_file, followed by the entry into stage_diffs
stage_managed_file ==
    /\ pc = "stage_changes"
    /\ pending(cur) # { }
    /\ LET i == next_pending(cur)
           summary == summaries[Dictionaries[i]]
       IN  /\ index' = index_add(index, summary.path,
                                 hash_object(MANAGED_FILE_TEXT))
           /\ cur' = i
           /\ todo' = summary.unstaged_diff
    /\ deleted_path_parents' = { }
    /\ pc' = "stage_diffs"
    /\ UNCHANGED << head, index_file, index_writes, worktree, dirs, stray,
                    result, summaries >>
    /\ unchanged_input

\* stage_diffs, line 65: the diffs the loop can visit next: the list holds
\* the Add and Update actions before the Delete actions
next_diffs ==
    IF \E diff \in todo : diff.kind # "Delete"
    THEN { diff \in todo : diff.kind # "Delete" }
    ELSE todo

\* stage_diffs: the loop goes on, or the batch ends: the empty folders are
\* deleted (lines 116-137) and stage_changes takes the next summary
batch_goes_on(diff, files, ds, parents) ==
    /\ todo' = todo \ { diff }
    /\ IF todo = { diff }
       THEN /\ dirs' = remove_empty_parents(files, ds, parents)
            /\ deleted_path_parents' = { }
            /\ cur' = cur + 1
            /\ pc' = "stage_changes"
       ELSE /\ dirs' = ds
            /\ deleted_path_parents' = parents
            /\ cur' = cur
            /\ pc' = "stage_diffs"

\* the batch ends with an error: stage_diffs, stage_changes and stage return
batch_fails(error) ==
    /\ pc' = "done"
    /\ result' = error
    /\ UNCHANGED << cur, todo, deleted_path_parents >>

\* fs::write(&clob.path, ..), line 84: the file that the relative path
\* names from the current directory is the file of the working tree only
\* when the current directory is the working-tree root
write_in_workdir == cwd = "workdir"

\* the working tree after fs::write(&clob.path, &clob.content)
fs_write(clob) ==
    IF write_in_workdir
    THEN Put(worktree, file_key(clob.path), clob.content)
    ELSE worktree

\* stage_diffs, lines 70-93: Add or Update, every call succeeds
stage_diffs_write ==
    /\ pc = "stage_diffs"
    /\ \E diff \in next_diffs :
         /\ diff.kind \in { "Add", "Update" }
         /\ LET clob  == diff.clob
                files == fs_write(clob)
            IN  /\ has_path(ignore_case, files, clob.path)
                /\ worktree' = files
                /\ stray' = IF write_in_workdir THEN stray
                            ELSE stray \cup { clob }
                /\ index' = index_add(index, clob.path,
                              hash_object(files[stored_key(ignore_case, files,
                                                           clob.path)]))
                /\ batch_goes_on(diff, files,
                                 create_dir_all(dirs, parent(clob.path)),
                                 deleted_path_parents)
    /\ UNCHANGED << head, index_file, index_writes, result, summaries >>
    /\ unchanged_input

\* stage_diffs, lines 75-89: create_dir_all or fs::write fails
stage_diffs_write_error ==
    /\ pc = "stage_diffs"
    /\ \E diff \in next_diffs :
         /\ diff.kind \in { "Add", "Update" }
         /\ \E created \in BOOLEAN :
              dirs' = IF created
                      THEN create_dir_all(dirs, parent(diff.clob.path))
                      ELSE dirs
    /\ batch_fails("FileWriteError")
    /\ UNCHANGED << head, index, index_file, index_writes, worktree, stray,
                    summaries >>
    /\ unchanged_input

\* stage_diffs, line 92: the file was written somewhere else and
\* index.add_path finds no file to stage
stage_diffs_add_path_error ==
    /\ pc = "stage_diffs"
    /\ \E diff \in next_diffs :
         /\ diff.kind \in { "Add", "Update" }
         /\ ~write_in_workdir
         /\ ~file_exists(diff.clob.path)
         /\ dirs' = create_dir_all(dirs, parent(diff.clob.path))
         /\ stray' = stray \cup { diff.clob }
    /\ batch_fails("OtherGitError")
    /\ UNCHANGED << head, index, index_file, index_writes, worktree,
                    summaries >>
    /\ unchanged_input

\* stage_diffs, lines 94-112: Delete, every call succeeds
stage_diffs_delete ==
    /\ pc = "stage_diffs"
    /\ \E diff \in next_diffs :
         /\ diff.kind = "Delete"
         /\ file_exists(diff.path)
         /\ LET files == Drop(worktree, file_key(diff.path))
            IN  /\ worktree' = files
                /\ index' = index_remove(index, diff.path)
                /\ batch_goes_on(diff, files, dirs,
                       deleted_path_parents \cup { parent(diff.path) })
    /\ UNCHANGED << head, index_file, index_writes, stray, result,
                    summaries >>
    /\ unchanged_input

\* variant of stage_diffs_delete_error that restores the files before it
\* returns
stage_diffs_delete_error_rollback ==
    /\ pc = "stage_diffs"
    /\ \E diff \in next_diffs : diff.kind = "Delete"
    /\ batch_fails("FileDeleteError")
    /\ worktree' = start.worktree
    /\ UNCHANGED << head, index, index_file, index_writes, dirs, stray,
                    summaries >>
    /\ unchanged_input

\* stage_diffs, lines 98-103: fs::remove_file fails (it always does when
\* the path names no file)
stage_diffs_delete_error ==
    /\ pc = "stage_diffs"
    /\ \E diff \in next_diffs : diff.kind = "Delete"
    /\ batch_fails("FileDeleteError")
    /\ UNCHANGED << head, index, index_file, index_writes, worktree, dirs,
                    stray, summaries >>
    /\ unchanged_input

\* StagingArea::commit at the end of stage_changes: index.write(), which
\* fails while another process holds index.lock
commit ==
    /\ pc = "stage_changes"
    /\ pending(cur) = { }
    /\ ~index_lock
    /\ index_file' = index
    /\ index_writes' = index_writes + 1
    /\ pc' = "done"
    /\ result' = "Ok"
    /\ UNCHANGED << head, index, worktree, dirs, stray, summaries, cur,
                    todo, deleted_path_parents >>
    /\ unchanged_input

\* StagingArea::commit: index.write() fails
commit_error ==
    /\ pc = "stage_changes"
    /\ pending(cur) = { }
    /\ pc' = "done"
    /\ result' = "OtherGitError"
    /\ UNCHANGED << head, index, index_file, index_writes, worktree, dirs,
                    stray, summaries, cur, todo, deleted_path_parents >>
    /\ unchanged_input

Next ==
    \/ stage_load_error
    \/ stage
    \/ stage_managed_file
    \/ stage_diffs_write
    \/ stage_diffs_write_error
    \/ stage_diffs_add_path_error
    \/ stage_diffs_delete
    \/ stage_diffs_delete_error
    \/ commit
    \/ commit_error

Spec == Init /\ [][Next]_vars

\* ------------------------------------------------------------------ the change-set

\* the summaries are built and the repository is still the one they were
\* built against
diffed ==
    /\ summaries # << >>
    /\ index = start.index
    /\ worktree = start.worktree

\* the tracked .txt files under a root
tracked_clobs(root) ==
    { p \in DOMAIN index : under(root, p) /\ ends_with_txt(p) }

\* the Add and Update actions of a change-set for the object at a full path
actions_for(diffs, full) ==
    { a \in diffs : a.kind \in { "Add", "Update" } /\ a.clob.path = full }

\* the paths of the Delete actions of a change-set
deleted_paths(diffs) == { a.path : a \in { b \in diffs : b.kind = "Delete" } }

\* the stream matches the tracked tree under the root: every object has an
\* entry at its full path with its bytes, and no other .txt file is tracked
tree_matches(root, stream) ==
    /\ \A c \in stream :
         /\ full_path(root, c.path) \in DOMAIN index
         /\ find_blob(index[full_path(root, c.path)]) = c.content
    /\ tracked_clobs(root) = { full_path(root, c.path) : c \in stream }

\* C5: when every object of the stream has an index entry at its full path
\* with the same bytes, and no other .txt file is tracked under the root,
\* diff_clobs_at_path returns the empty change-set.
C5_matching_tree_gives_empty_diff ==
    diffed =>
      \A d \in DictionarySet :
        tree_matches(contents_root(d), clobs[d])
          => summaries[d].unstaged_diff = { }

\* C5: a run whose stream of two objects matches the tracked tree
C5_witness ==
    /\ diffed
    /\ \E d \in DictionarySet :
         /\ Cardinality(clobs[d]) = 2
         /\ tree_matches(contents_root(d), clobs[d])
         /\ summaries[d].unstaged_diff = { }

\* the action the claim C6 expects for one object: Add without an entry,
\* Update when the hash or the bytes differ, none otherwise
expected_actions(root, c) ==
    LET full == full_path(root, c.path)
        clob == [ path |-> full, content |-> c.content ]
    IN  IF ~has_path(ignore_case, index, full)
          THEN { [ kind |-> "Add", clob |-> clob ] }
        ELSE IF \/ hash_object(c.content) #
                     index[stored_key(ignore_case, index, full)]
                \/ find_blob(index[stored_key(ignore_case, index, full)]) #
                     c.content
          THEN { [ kind |-> "Update", clob |-> clob ] }
        ELSE { }

\* C6: for each incoming object the change-set holds at most one action: Add
\* when the index finds no entry at the object's full path (the path as it
\* is, not lower-cased); Update when an entry is found and the hash of the
\* bytes differs from its id or the stored bytes differ; no action otherwise.
\* Every Add and Update of the change-set is the action of an incoming
\* object.
C6_one_action_per_object ==
    diffed =>
      \A d \in DictionarySet :
        LET root  == contents_root(d)
            diffs == summaries[d].unstaged_diff
        IN  /\ \A c \in clobs[d] :
                 /\ Cardinality(actions_for(diffs, full_path(root, c.path)))
                      <= 1
                 /\ actions_for(diffs, full_path(root, c.path))
                      = expected_actions(root, c)
            /\ \A a \in diffs :
                 a.kind \in { "Add", "Update" } =>
                   \E c \in clobs[d] :
                     a.clob = [ path |-> full_path(root, c.path),
                                content |-> c.content ]

\* C6: one stream gets an Add, and an object with an equal entry gets no
\* action
C6_witness ==
    /\ diffed
    /\ \E d \in DictionarySet :
         LET root  == contents_root(d)
             diffs == summaries[d].unstaged_diff
         IN  \E c1, c2 \in clobs[d] :
               /\ actions_for(diffs, full_path(root, c1.path))
                    = { [ kind |-> "Add",
                          clob |-> [ path |-> full_path(root, c1.path),
                                     content |-> c1.content ] ] }
               /\ has_path(ignore_case, index, full_path(root, c2.path))
               /\ actions_for(diffs, full_path(root, c2.path)) = { }

\* C6: an object whose entry holds other bytes gets an Update
C6_witness_update ==
    /\ diffed
    /\ \E d \in DictionarySet :
         \E a \in summaries[d].unstaged_diff :
           /\ a.kind = "Update"
           /\ has_path(ignore_case, index, a.clob.path)
           /\ find_blob(index[stored_key(ignore_case, index, a.clob.path)])
                # a.clob.content

\* a tracked .txt file that no incoming object claims; an object claims the
\* paths that differ from its own by letter case only
unclaimed_tracked(root, stream) ==
    { p \in tracked_clobs(root) :
        \A c \in stream :
          to_lowercase(full_path(root, c.path)) # to_lowercase(p) }

\* C7: the Delete actions of a change-set are exactly one Delete{P} for each
\* tracked .txt file P under the root that no incoming object claimed, and P
\* is the path of that file; when the stream matches the tree but for one
\* object P, the change-set is exactly { Delete{P} }.
C7_delete_per_unclaimed_file ==
    diffed =>
      \A d \in DictionarySet :
        LET root  == contents_root(d)
            diffs == summaries[d].unstaged_diff
        IN  /\ deleted_paths(diffs) = unclaimed_tracked(root, clobs[d])
            /\ \A P \in tracked_clobs(root) :
                 ( /\ \A c \in clobs[d] :
                        /\ full_path(root, c.path) \in DOMAIN index
                        /\ find_blob(index[full_path(root, c.path)])
                             = c.content
                   /\ tracked_clobs(root) \ { P }
                        = { full_path(root, c.path) : c \in clobs[d] } )
                 => diffs = { [ kind |-> "Delete", path |-> P ] }

\* C8: an object whose full path differs from a tracked path only by letter
\* case is that path in the three accounts: the tracked path is not
\* deleted, the object is not added, and it is compared with the tracked
\* entry: Update when the bytes differ, no action when they are equal.
C8_case_variant_is_same_path ==
    diffed =>
      \A d \in DictionarySet :
        LET root  == contents_root(d)
            diffs == summaries[d].unstaged_diff
        IN  \A c \in clobs[d] : \A P \in tracked_clobs(root) :
              LET full == full_path(root, c.path)
                  clob == [ path |-> full, content |-> c.content ]
              IN  ( /\ full # P
                    /\ to_lowercase(full) = to_lowercase(P)
                    /\ full \notin DOMAIN index )
                  => /\ P \notin deleted_paths(diffs)
                     /\ to_lowercase(P) \notin deleted_paths(diffs)
                     /\ [ kind |-> "Add", clob |-> clob ] \notin diffs
                     /\ ( [ kind |-> "Update", clob |-> clob ] \in diffs
                            <=> find_blob(index[P]) # c.content )

\* ------------------------------------------------------------------ the run

\* stage applied the change-sets and wrote the index
committed == pc = "done" /\ result = "Ok" /\ index_writes = 1

\* C4: when the change-set of a stream was applied by stage_diffs and
\* committed without an I/O failure, a second diff_clobs_at_path over the
\* same objects is empty, and the tracked .txt files under the root are
\* exactly the generated objects with their generated content (a path
\* being the paths the platform takes for the same entry).
C4_stage_then_diff_is_empty ==
    committed =>
      \A d \in DictionarySet :
        LET root == contents_root(d)
        IN  /\ diff_clobs_at_path(root, clobs[d]) = { }
            /\ \A P \in tracked_clobs(root) :
                 \E c \in clobs[d] :
                   same_path(ignore_case, P, full_path(root, c.path))
            /\ \A c \in clobs[d] :
                 /\ index_get_path(full_path(root, c.path)).found
                 /\ find_blob(index_get_path(full_path(root, c.path)).id)
                      = c.content

\* neither the filesystem nor the index differ from what stage found
untouched ==
    /\ worktree = start.worktree
    /\ dirs = start.dirs
    /\ stray = { }
    /\ index = start.index
    /\ index_file = start.index
    /\ index_writes = 0

\* the detector reports an external edit of these kinds for the file that
\* an action of the change-set targets (the file the platform opens under
\* the action's path)
lost_edits(summary, kinds) ==
    { pair \in summary.workdir_issues \X summary.unstaged_diff :
        /\ pair[1].kind \in kinds
        /\ same_path(ignore_case, pair[1].path, diff_path(pair[2])) }

\* stage returned the error of the external-modifications check before it
\* changed anything
aborted_untouched ==
    /\ pc = "done"
    /\ result = "ExternalModificationsWillBeLost"
    /\ untouched

\* C2: when the detector reports a content file as modified on disk and the
\* change-set would overwrite or remove it, stage without the override
\* returns an error before any file is written or removed and before the
\* index is touched; stage with the override proceeds, and when it succeeds
\* the file holds the generated content.
C2_modified_file_needs_override ==
    summaries # << >> =>
      \A d \in DictionarySet :
        \A pair \in lost_edits(summaries[d], { "UpdatedInWorkdir" }) :
          /\ ~discard_workdir_changes => aborted_untouched
          /\ discard_workdir_changes =>
               /\ result # "ExternalModificationsWillBeLost"
               /\ ( pc = "done" /\ result = "Ok"
                    /\ pair[2].kind \in { "Add", "Update" } )
                  => /\ file_exists(pair[2].clob.path)
                     /\ worktree[file_key(pair[2].clob.path)]
                          = pair[2].clob.content

\* C3: whenever the change-set holds an Add, Update or Delete whose target
\* file has an external edit reported by the detector (added, modified or
\* deleted on disk), stage without the override aborts with
\* ExternalModificationsWillBeLost and changes neither the filesystem nor
\* the index, for every kind of action and every letter case of the path.
C3_no_override_no_mutation ==
    ( summaries # << >> /\ ~discard_workdir_changes ) =>
      \A d \in DictionarySet :
        lost_edits(summaries[d], { "AddedInWorkdir", "UpdatedInWorkdir",
                                   "DeletedInWorkdir" }) # { }
          => aborted_untouched

\* stage_changes visited every summary with changes
all_applied == pc = "done" /\ todo = { } /\ pending(cur) = { }

\* stage found changes to apply
found_changes ==
    /\ summaries # << >>
    /\ \E d \in DictionarySet : any_unstaged(summaries[d])

\* C9 as stated: a successful stage run writes the index exactly once, after
\* every change of every dictionary has been applied; the index is not
\* written before that point, and not when the run fails.
C9_success_writes_index_once ==
    /\ ( pc = "done" /\ result = "Ok" ) =>
         /\ index_writes = 1
         /\ index_file = index
    /\ ( pc = "done" /\ result # "Ok" ) =>
         /\ index_writes = 0
         /\ index_file = start.index
    /\ pc # "done" => index_writes = 0 /\ index_file = start.index

\* C9, amended: a stage run that finds changes and succeeds writes the index
\* exactly once, as its last step, after every change of every dictionary
\* has been applied; a run that finds no change succeeds without writing
\* the index; the index is not written before the last step, and not when
\* the run fails.
C9_index_written_once_after_changes ==
    /\ [] ( /\ ( pc = "done" /\ result = "Ok" /\ found_changes ) =>
                 /\ index_writes = 1
                 /\ index_file = index
                 /\ all_applied
            /\ ( pc = "done" /\ result = "Ok" /\ ~found_changes ) =>
                 /\ index_writes = 0
                 /\ index_file = start.index
            /\ ( pc = "done" /\ result # "Ok" ) =>
                 /\ index_writes = 0
                 /\ index_file = start.index
            /\ pc # "done" => index_writes = 0 /\ index_file = start.index )
    /\ [][ ( index_writes' # index_writes \/ index_file' # index_file ) =>
             /\ pc = "stage_changes"
             /\ todo = { }
             /\ pending(cur) = { }
             /\ index_file' = index
             /\ index' = index
             /\ pc' = "done"
             /\ result' = "Ok" ]_vars

\* C9: both dictionaries had changes, all were applied and the index was
\* written
C9_witness ==
    /\ pc = "done"
    /\ result = "Ok"
    /\ \A d \in DictionarySet : any_unstaged(summaries[d])
    /\ index_writes = 1
    /\ index_file = index
    /\ index # start.index

\* the errors of a file write and of a file removal
io_errors == { "FileWriteError", "FileDeleteError" }

\* C10: when a file write or a file removal fails in stage_diffs, the error
\* is returned at once: the step that fails ends the run, the changes still
\* to visit are not applied (nothing happens after the failure), the files
\* changed before stay as they are, and the index is not written.
C10_failure_stops_batch ==
    /\ [][ ( pc = "stage_diffs" /\ result' \in io_errors ) =>
             /\ pc' = "done"
             /\ todo' = todo
             /\ worktree' = worktree
             /\ stray' = stray
             /\ index' = index
             /\ index_file' = index_file
             /\ index_writes' = index_writes ]_vars
    /\ [][ pc = "done" => FALSE ]_vars
    /\ [] ( result \in io_errors =>
              /\ pc = "done"
              /\ index_writes = 0
              /\ index_file = start.index )

\* C10: a batch failed after it changed a file, with two changes left
C10_witness ==
    /\ result \in io_errors
    /\ worktree # start.worktree
    /\ Cardinality(todo) >= 2

\* ------------------------------------------------------------------ strings

\* A string is a sequence of symbols.  A symbol is one character, or a run
\* of characters that the texts of the model never break up ("_sh", "v3.0",
\* "Dictionary").

\* char::is_whitespace
is_whitespace(c) == c \in { " ", "\n", "\r" }

\* [0-9]
is_digit(c) == c \in { "1" }

\* str::trim().is_empty()
is_blank(s) == \A i \in DOMAIN s : is_whitespace(s[i])

\* str::find(pred): the position of the first symbol that satisfies it, or 0
find_whitespace(s) ==
    IF \E i \in DOMAIN s : is_whitespace(s[i])
    THEN CHOOSE i \in DOMAIN s :
           is_whitespace(s[i]) /\ \A j \in 1 .. (i - 1) : ~is_whitespace(s[j])
    ELSE 0

\* str::find('\n')
find_newline(s) ==
    IF \E i \in DOMAIN s : s[i] = "\n"
    THEN CHOOSE i \in DOMAIN s :
           s[i] = "\n" /\ \A j \in 1 .. (i - 1) : s[j] # "\n"
    ELSE 0

\* str::trim_end_matches(|c| c == '\r' || c == '\n')
RECURSIVE trim_end_matches(_)
trim_end_matches(s) ==
    IF s # << >> /\ s[Len(s)] \in { "\r", "\n" }
    THEN trim_end_matches(SubSeq(s, 1, Len(s) - 1))
    ELSE s

\* str::trim_end
RECURSIVE trim_end(_)
trim_end(s) ==
    IF s # << >> /\ is_whitespace(s[Len(s)])
    THEN trim_end(SubSeq(s, 1, Len(s) - 1))
    ELSE s

\* str::trim_start
RECURSIVE trim_start(_)
trim_start(s) ==
    IF s # << >> /\ is_whitespace(s[1]) THEN trim_start(Tail(s)) ELSE s

\* str::trim
trim(s) == trim_start(trim_end(s))

\* the runs of non-whitespace symbols of a string
RECURSIVE words(_)
words(s) ==
    LET t == trim_start(s)
        e == find_whitespace(t)
    IN  IF t = << >> THEN << >>
        ELSE IF e = 0 THEN << t >>
        ELSE << SubSeq(t, 1, e - 1) >> \o words(SubSeq(t, e, Len(t)))

\* [&str]::join(sep)
RECURSIVE join(_, _)
join(parts, sep) ==
    IF parts = << >> THEN << >>
    ELSE IF Len(parts) = 1 THEN parts[1]
    ELSE parts[1] \o sep \o join(Tail(parts), sep)

\* ------------------------------------------------------------------ scanner.rs

\* variant of ParsedLine::from that looks for the marker after the leading
\* whitespace
ParsedLine_after_whitespace(line) ==
    LET rest == trim_start(line)
    IN  IF rest # << >> /\ rest[1] = "\\"
        THEN LET ws  == find_whitespace(rest)
                 end == IF ws = 0 THEN Len(rest) ELSE ws - 1
             IN  [ kind |-> "Tagged",
                   tag  |-> SubSeq(rest, 1, end),
                   text |-> SubSeq(rest, end + 1, Len(rest)) ]
        ELSE IF is_blank(line) THEN [ kind |-> "Blank" ]
        ELSE [ kind |-> "Untagged", text |-> line ]

\* ParsedLine::from
ParsedLine(line) ==
    IF line # << >> /\ line[1] = "\\"
    THEN LET ws  == find_whitespace(line)
             end == IF ws = 0 THEN Len(line) ELSE ws - 1
         IN  [ kind |-> "Tagged",
               tag  |-> SubSeq(line, 1, end),
               text |-> SubSeq(line, end + 1, Len(line)) ]
    ELSE IF is_blank(line) THEN [ kind |-> "Blank" ]
    ELSE [ kind |-> "Untagged", text |-> line ]

\* variant of trim_trailing_empty_lines that also removes the line break of
\* the last line it keeps
trim_trailing_line_breaks(t) == trim_end(t)

\* internal::trim_trailing_empty_lines
RECURSIVE trim_trailing_empty_lines(_)
trim_trailing_empty_lines(t) ==
    IF t = << >> THEN t
    ELSE LET last  == IF t[Len(t)] = "\n" THEN Len(t) - 1 ELSE Len(t)
             breaks == { i \in 1 .. last : t[i] = "\n" }
             first == IF breaks = { } THEN 1
                      ELSE 1 + CHOOSE i \in breaks : \A j \in breaks : j <= i
         IN  IF is_blank(SubSeq(t, first, last))
             THEN trim_trailing_empty_lines(SubSeq(t, 1, first - 1))
             ELSE t

\* Option::None
None == [ kind |-> "None" ]

\* Scanner::from.  The remaining text is the text from position `at` on;
\* `start` is the position where the open record started, or 0 (None)
Scanner_from(t, record_tag) ==
    [ at          |-> 1,
      next_line_i |-> 0,
      record_tag  |-> record_tag,
      queue       |-> << >>,
      last_line   |-> [ line |-> 0, text |-> t ],
      start       |-> 0 ]

\* variant of Scanner::next that queues the token of the line above the
\* RecordBegin token
Scanner_next_line_first(t, sc) ==
    IF sc.queue # << >>
    THEN [ scanner |-> [ sc EXCEPT !.queue = SubSeq(sc.queue, 1,
                                                   Len(sc.queue) - 1) ],
           item    |-> [ line  |-> sc.last_line,
                         token |-> sc.queue[Len(sc.queue)] ] ]
    ELSE IF sc.at > Len(t)
    THEN [ scanner |-> [ sc EXCEPT !.start = 0 ],
           item    |-> IF sc.start = 0 THEN None
                       ELSE [ line  |-> sc.last_line,
                              token |-> [ kind |-> "RecordEnd",
                                          body |-> trim_trailing_empty_lines(
                                              SubSeq(t, sc.start, Len(t))) ] ] ]
    ELSE LET rest   == SubSeq(t, sc.at, Len(t))
             nl     == find_newline(rest)
             end    == IF nl = 0 THEN Len(rest) ELSE nl
             line   == trim_end_matches(SubSeq(rest, 1, end))
             parsed == ParsedLine(line)
             record == parsed.kind = "Tagged" /\ parsed.tag = sc.record_tag
             ended  == IF sc.start = 0 THEN << >>
                       ELSE << [ kind |-> "RecordEnd",
                                 body |-> trim_trailing_empty_lines(
                                     SubSeq(t, sc.start, sc.at - 1)) ] >>
             pushed == << [ kind |-> "RecordBegin" ], parsed >> \o ended
             last   == [ line |-> sc.next_line_i, text |-> line ]
         IN  [ scanner |->
                 [ at          |-> sc.at + end,
                   next_line_i |-> sc.next_line_i + 1,
                   record_tag  |-> sc.record_tag,
                   queue       |-> IF record
                                   THEN SubSeq(pushed, 1, Len(pushed) - 1)
                                   ELSE << >>,
                   last_line   |-> last,
                   start       |-> IF record THEN sc.at ELSE sc.start ],
               item |-> [ line  |-> last,
                          token |-> IF record THEN pushed[Len(pushed)]
                                    ELSE parsed ] ]

\* variant of Scanner::next that reads the start of the open record at the
\* end of the input without taking it
Scanner_next_start_kept(t, sc) ==
    IF sc.queue # << >>
    THEN [ scanner |-> [ sc EXCEPT !.queue = SubSeq(sc.queue, 1,
                                                   Len(sc.queue) - 1) ],
           item    |-> [ line  |-> sc.last_line,
                         token |-> sc.queue[Len(sc.queue)] ] ]
    ELSE IF sc.at > Len(t)
    THEN [ scanner |-> sc,
           item    |-> IF sc.start = 0 THEN None
                       ELSE [ line  |-> sc.last_line,
                              token |-> [ kind |-> "RecordEnd",
                                          body |-> trim_trailing_empty_lines(
                                              SubSeq(t, sc.start, Len(t))) ] ] ]
    ELSE LET rest   == SubSeq(t, sc.at, Len(t))
             nl     == find_newline(rest)
             end    == IF nl = 0 THEN Len(rest) ELSE nl
             line   == trim_end_matches(SubSeq(rest, 1, end))
             parsed == ParsedLine(line)
             record == parsed.kind = "Tagged" /\ parsed.tag = sc.record_tag
             ended  == IF sc.start = 0 THEN << >>
                       ELSE << [ kind |-> "RecordEnd",
                                 body |-> trim_trailing_empty_lines(
                                     SubSeq(t, sc.start, sc.at - 1)) ] >>
             pushed == << parsed, [ kind |-> "RecordBegin" ] >> \o ended
             last   == [ line |-> sc.next_line_i, text |-> line ]
         IN  [ scanner |->
                 [ at          |-> sc.at + end,
                   next_line_i |-> sc.next_line_i + 1,
                   record_tag  |-> sc.record_tag,
                   queue       |-> IF record
                                   THEN SubSeq(pushed, 1, Len(pushed) - 1)
                                   ELSE << >>,
                   last_line   |-> last,
                   start       |-> IF record THEN sc.at ELSE sc.start ],
               item |-> [ line  |-> last,
                          token |-> IF record THEN pushed[Len(pushed)]
                                    ELSE parsed ] ]

\* Scanner::next: the scanner after the call and the item it returns
Scanner_next(t, sc) ==
    IF sc.queue # << >>
    THEN [ scanner |-> [ sc EXCEPT !.queue = SubSeq(sc.queue, 1,
                                                   Len(sc.queue) - 1) ],
           item    |-> [ line  |-> sc.last_line,
                         token |-> sc.queue[Len(sc.queue)] ] ]
    ELSE IF sc.at > Len(t)
    THEN [ scanner |-> [ sc EXCEPT !.start = 0 ],
           item    |-> IF sc.start = 0 THEN None
                       ELSE [ line  |-> sc.last_line,
                              token |-> [ kind |-> "RecordEnd",
                                          body |-> trim_trailing_empty_lines(
                                              SubSeq(t, sc.start, Len(t))) ] ] ]
    ELSE LET rest   == SubSeq(t, sc.at, Len(t))
             nl     == find_newline(rest)
             end    == IF nl = 0 THEN Len(rest) ELSE nl
             line   == trim_end_matches(SubSeq(rest, 1, end))
             parsed == ParsedLine(line)
             record == parsed.kind = "Tagged" /\ parsed.tag = sc.record_tag
             ended  == IF sc.start = 0 THEN << >>
                       ELSE << [ kind |-> "RecordEnd",
                                 body |-> trim_trailing_empty_lines(
                                     SubSeq(t, sc.start, sc.at - 1)) ] >>
             pushed == << parsed, [ kind |-> "RecordBegin" ] >> \o ended
             last   == [ line |-> sc.next_line_i, text |-> line ]
         IN  [ scanner |->
                 [ at          |-> sc.at + end,
                   next_line_i |-> sc.next_line_i + 1,
                   record_tag  |-> sc.record_tag,
                   queue       |-> IF record
                                   THEN SubSeq(pushed, 1, Len(pushed) - 1)
                                   ELSE << >>,
                   last_line   |-> last,
                   start       |-> IF record THEN sc.at ELSE sc.start ],
               item |-> [ line  |-> last,
                          token |-> IF record THEN pushed[Len(pushed)]
                                    ELSE parsed ] ]

\* ------------------------------------------------------------------ util.rs

\* the characters of a symbol
chars(c) ==
    IF c = "_sh" THEN << "_", "s", "h" >>
    ELSE IF c = "v3.0" THEN << "v", "3", ".", "0" >>
    ELSE IF c = "Dictionary"
      THEN << "D", "i", "c", "t", "i", "o", "n", "a", "r", "y" >>
    ELSE << c >>

\* str::chars
RECURSIVE all_chars(_)
all_chars(s) ==
    IF s = << >> THEN << >> ELSE chars(s[1]) \o all_chars(Tail(s))

\* the symbols of a string as one TLA+ string
RECURSIVE str(_)
str(s) == IF s = << >> THEN "" ELSE s[1] \o str(Tail(s))

\* the characters outside of ASCII: the Cyrillic letter de, the letter e
\* with an acute accent, and the combining acute accent
NonAscii == { "U+0434", "U+00E9", "U+0301" }

\* char::is_ascii
is_ascii_char(c) == c \notin NonAscii

\* char::is_ascii_alphanumeric
is_ascii_alphanumeric(c) ==
    c \in { "a", "b", "c", "d", "e", "f", "g", "h", "i", "l", "n", "o", "r",
            "s", "t", "v", "x", "y", "A", "B", "D", "0", "1", "3" }

\* char::is_alphanumeric: the letters and digits of Unicode
is_alphanumeric(c) ==
    is_ascii_alphanumeric(c) \/ c \in { "U+0434", "U+00E9" }

\* deunicode::AsciiChars: the ASCII transliteration of one character
ascii_chars(c) ==
    IF c = "U+0434" THEN << "d" >>
    ELSE IF c = "U+00E9" THEN << "e" >>
    ELSE IF c = "U+0301" THEN << >>
    ELSE << c >>

\* UnicodeNormalization::nfd: the canonical decomposition of one character
nfd(c) == IF c = "U+00E9" THEN << "e", "U+0301" >> ELSE << c >>

\* sanitize_label, lines 73-75: the transliterations of the characters,
\* flattened
RECURSIVE deunicode_chars(_)
deunicode_chars(cs) ==
    IF cs = << >> THEN << >>
    ELSE ascii_chars(cs[1]) \o deunicode_chars(Tail(cs))

\* UnicodeNormalization::nfd over a string
RECURSIVE nfd_chars(_)
nfd_chars(cs) ==
    IF cs = << >> THEN << >> ELSE nfd(cs[1]) \o nfd_chars(Tail(cs))

\* char::to_ascii_lowercase
to_ascii_lowercase(c) ==
    IF c = "A" THEN "a" ELSE IF c = "B" THEN "b" ELSE IF c = "D" THEN "d"
    ELSE c

\* sanitize_label, lines 83-90: the fold that drops a '_' after a '_'
RECURSIVE squeeze(_, _)
squeeze(buff, cs) ==
    IF cs = << >> THEN buff
    ELSE squeeze(IF cs[1] = "_" /\ buff # << >> /\ buff[Len(buff)] = "_"
                 THEN buff ELSE Append(buff, cs[1]),
                 Tail(cs))

\* util::sanitize_label
sanitize_label(label) ==
    LET cs == deunicode_chars(all_chars(label))
    IN  squeeze(<< >>,
                [ i \in DOMAIN cs |->
                    IF is_ascii_alphanumeric(cs[i])
                    THEN to_ascii_lowercase(cs[i]) ELSE "_" ])

\* Iterator::filter(char::is_alphanumeric)
RECURSIVE alphanumerics(_)
alphanumerics(cs) ==
    IF cs = << >> THEN << >>
    ELSE IF is_alphanumeric(cs[1])
      THEN << cs[1] >> \o alphanumerics(Tail(cs))
    ELSE alphanumerics(Tail(cs))

\* variant of build_path_prefix that does not pad a short name
build_path_prefix_unpadded(name) ==
    LET found == alphanumerics(nfd_chars(all_chars(name)))
        taken == SubSeq(found, 1, IF Len(found) < 4 THEN Len(found) ELSE 4)
    IN  IF Len(taken) <= 2 THEN taken
        ELSE SubSeq(taken, 1, 2) \o << "/" >> \o SubSeq(taken, 3, Len(taken))

\* util::build_path_prefix: the prefix as a string
build_path_prefix(name) ==
    LET padded == alphanumerics(nfd_chars(all_chars(name)))
                  \o << "_", "_", "_", "_" >>
        taken  == SubSeq(padded, 1, 4)
        chunks == << SubSeq(taken, 1, 2), SubSeq(taken, 3, 4) >>
    IN  chunks[1] \o << "/" >> \o chunks[2]

\* a path string as the names of its components
RECURSIVE components(_)
components(path) ==
    IF \E i \in DOMAIN path : path[i] = "/"
    THEN LET at == CHOOSE i \in DOMAIN path :
                     path[i] = "/" /\ \A j \in 1 .. (i - 1) : path[j] # "/"
         IN  << str(SubSeq(path, 1, at - 1)) >>
             \o components(SubSeq(path, at + 1, Len(path)))
    ELSE << str(path) >>

\* Clob::validated: the assertion self.path.is_ascii()
Clob_validated(path) == \A i \in DOMAIN path : is_ascii_char(path[i])

\* ------------------------------------------------------------------ dictionary

\* the header line of a Toolbox dictionary
HeaderLine == << "\\", "_sh", " ", "v3.0", " ", "1", " ", "Dictionary" >>

\* expect_toolbox_dictionary_header, re_header.is_match(line.text):
\* ^\\_sh[[:space:]]+v3\.0[[:space:]]+[0-9]+[[:space:]]+Dictionary[[:space:]]*$
is_header(line) ==
    LET w == words(line)
    IN  /\ line # << >>
        /\ ~is_whitespace(line[1])
        /\ Len(w) = 4
        /\ w[1] = << "\\", "_sh" >>
        /\ w[2] = << "v3.0" >>
        /\ w[3] # << >> /\ \A i \in DOMAIN w[3] : is_digit(w[3][i])
        /\ w[4] = << "Dictionary" >>

\* the local variables of split before the first token is read
split_locals ==
    [ orphaned_lines |-> << >>,
      clobs          |-> << >>,
      record_label   |-> << >>,
      id_map         |-> << >>,
      id_missing     |-> << >>,
      record_start   |-> [ line |-> 0, text |-> << >> ],
      record_id_line |-> [ line |-> 0, text |-> << >> ],
      record_id      |-> None ]

\* Scanner::next is called: the scanner moves on and the item is recorded
scanner_advances(r) ==
    /\ scanner' = r.scanner
    /\ yielded' = IF r.item = None THEN yielded ELSE Append(yielded, r.item)

\* Dictionary::load, lines 66-84, with one turn of the loop of
\* expect_toolbox_dictionary_header per step
expect_toolbox_dictionary_header ==
    /\ phase = "header"
    /\ LET r == Scanner_next(text, scanner)
       IN  IF r.item # None /\ r.item.token.kind = "Blank"
           THEN /\ scanner_advances(r)
                /\ UNCHANGED << phase, issues, load_error >>
           ELSE IF r.item # None /\ is_header(r.item.line.text)
           THEN /\ scanner_advances(r)
                /\ phase' = "orphans"
                /\ UNCHANGED << issues, load_error >>
           ELSE LET error_line == r.scanner.last_line.line
                IN  \E strict \in BOOLEAN :
                      IF strict
                      THEN /\ scanner_advances(r)
                           /\ phase' = "failed"
                           /\ load_error' =
                                [ kind |-> "ToolboxDictionaryMissingHeader",
                                  line |-> error_line ]
                           /\ UNCHANGED issues
                      ELSE /\ scanner' = Scanner_from(text, config.record_tag)
                           /\ yielded' = IF r.item = None THEN yielded
                                          ELSE Append(yielded, r.item)
                           /\ issues' = Append(issues,
                                  [ kind |-> "MissingDictionaryHeader",
                                    line |-> error_line ])
                           /\ phase' = "orphans"
                           /\ UNCHANGED load_error
    /\ UNCHANGED << config, text, splitter, objects, stage_vars,
                    filter_vars, util_vars,
                    reconstruct_vars, line_vars >>

\* ------------------------------------------------------------------ split

\* Vec::push on a field of the locals
push(locals, field, x) == [ locals EXCEPT ![field] = Append(@, x) ]

\* record_splitter::split, lines 34-62, and id_splitter::split, lines
\* 73-101: one token of the scan for the lines before the first record
split_orphaned_lines ==
    /\ phase = "orphans"
    /\ LET r     == Scanner_next(text, scanner)
           token == r.item.token
           lines == splitter.orphaned_lines
       IN  /\ scanner_advances(r)
           /\ IF r.item = None \/ token.kind = "RecordBegin"
              THEN /\ phase' = "records"
                   /\ UNCHANGED << issues, splitter >>
              ELSE IF token.kind \in { "Tagged", "Untagged" }
              THEN /\ issues' = Append(issues,
                         [ kind |-> "LineBeforeFirstRecord",
                           line |-> r.item.line.line ])
                   /\ splitter' = push(splitter, "orphaned_lines",
                                       r.item.line.text)
                   /\ UNCHANGED phase
              ELSE IF /\ token.kind = "Blank"
                      /\ lines # << >>
                      /\ ~is_blank(lines[Len(lines)])
              THEN /\ splitter' = push(splitter, "orphaned_lines", << >>)
                   /\ UNCHANGED << phase, issues >>
              ELSE UNCHANGED << phase, issues, splitter >>
    /\ UNCHANGED << config, text, objects, load_error, stage_vars,
                    filter_vars, util_vars,
                    reconstruct_vars, line_vars >>

\* record_splitter::split, lines 70-104: one token of the main loop
record_splitter_token ==
    /\ phase = "records"
    /\ ~config.unique_id
    /\ LET r     == Scanner_next(text, scanner)
           token == r.item.token
       IN  /\ r.item # None
           /\ scanner_advances(r)
           /\ IF token.kind = "Tagged" /\ token.tag = config.record_tag
              THEN /\ issues' = IF trim(token.text) = << >>
                                THEN Append(issues,
                                       [ kind |-> "MissingRecordLabel",
                                         line |-> r.item.line.line ])
                                ELSE issues
                   /\ splitter' = [ splitter EXCEPT !.record_label =
                                      sanitize_label(trim(token.text)) ]
              ELSE IF token.kind = "Untagged"
              THEN /\ issues' = Append(issues,
                         [ kind |-> "UntaggedLine",
                           line |-> r.item.line.line ])
                   /\ UNCHANGED splitter
              ELSE IF token.kind = "RecordEnd"
              THEN /\ splitter' =
                        [ splitter EXCEPT
                            !.clobs = Append(@, [ key  |-> splitter.record_label,
                                                  body |-> token.body ]),
                            !.record_label = << >> ]
                   /\ UNCHANGED issues
              ELSE UNCHANGED << issues, splitter >>
    /\ UNCHANGED << config, text, phase, objects, load_error, stage_vars,
                    filter_vars, util_vars,
                    reconstruct_vars, line_vars >>

\* MultiMap: the keys, and the values of a key in the order of insertion
keys_of(entries) == { entries[i].key : i \in DOMAIN entries }

\* variant of values_of that gives the values in the reverse order
RECURSIVE values_of_reversed(_, _)
values_of_reversed(entries, key) ==
    IF entries = << >> THEN << >>
    ELSE values_of_reversed(Tail(entries), key)
         \o ( IF entries[1].key = key THEN << entries[1].body >> ELSE << >> )

RECURSIVE values_of(_, _)
values_of(entries, key) ==
    IF entries = << >> THEN << >>
    ELSE ( IF entries[1].key = key THEN << entries[1].body >> ELSE << >> )
         \o values_of(Tail(entries), key)

\* variant of orphan_object that emits the object of the lines before the
\* first record also when it is blank
orphan_object_unfiltered(lines) ==
    LET joined == join(lines, << "\n" >>)
        content == IF joined # << >> /\ joined[Len(joined)] = "\n"
                   THEN joined ELSE Append(joined, "\n")
    IN  { [ path |-> << "invalid", "__.txt" >>, content |-> content ] }

\* split: the object of the lines before the first record, if it is not
\* blank
orphan_object(lines) ==
    LET joined == join(lines, << "\n" >>)
        content == IF joined # << >> /\ joined[Len(joined)] = "\n"
                   THEN joined ELSE Append(joined, "\n")
    IN  IF is_blank(content) THEN { }
        ELSE { [ path |-> << "invalid", "__.txt" >>, content |-> content ] }

\* variant of label_path that puts every object into one directory
label_path_flat(label) ==
    IF label = << >> THEN << "invalid", "/", "label_missing.txt" >>
    ELSE label \o << ".txt" >>

\* record_splitter::split, lines 109-113: the path of the object of a label
label_path(label) ==
    IF label = << >> THEN << "invalid", "/", "label_missing.txt" >>
    ELSE build_path_prefix(label) \o << "/" >> \o label \o << ".txt" >>

\* record_splitter::split, lines 107-121: the object of one label
label_object(entries, label) ==
    [ path    |-> components(label_path(label)),
      content |-> join(values_of(entries, label), << "\n" >>) ]

\* record_splitter::split, lines 107-143: the scanner is exhausted
record_splitter_result ==
    /\ phase = "records"
    /\ ~config.unique_id
    /\ Scanner_next(text, scanner).item = None
    /\ IF \A label \in keys_of(splitter.clobs) :
              Clob_validated(label_path(label))
       THEN /\ objects' = { label_object(splitter.clobs, label) :
                              label \in keys_of(splitter.clobs) }
                          \cup orphan_object(splitter.orphaned_lines)
            /\ phase' = "done"
       ELSE /\ objects' = { }
            /\ phase' = "panic"
    /\ UNCHANGED << config, text, scanner, issues, splitter, yielded,
                    load_error, stage_vars, filter_vars, util_vars,
                    reconstruct_vars, line_vars >>

\* [a-zA-Z]
is_letter(c) == c \in { "a", "A", "B", "x" }

\* the longest prefix of letters
RECURSIVE letters_prefix(_)
letters_prefix(s) ==
    IF s # << >> /\ is_letter(s[1])
    THEN << s[1] >> \o letters_prefix(Tail(s))
    ELSE << >>

\* regex.captures(text) with the whole text matched, for the id-spec of
\* the sample configuration, (?P<namespace>[a-zA-Z]*)(?P<id>[0-9]+), for
\* an id-spec that takes every text as an id without a namespace,
\* (?P<namespace>)(?P<id>.+), and for the
\* default id-spec, $(?P<id>.+)^, which matches no text
captures(s, id_spec) ==
    LET namespace == letters_prefix(s)
        id        == SubSeq(s, Len(namespace) + 1, Len(s))
    IN  IF /\ id_spec = "sample"
           /\ id # << >>
           /\ \A i \in DOMAIN id : is_digit(id[i])
        THEN [ kind |-> "Some", namespace |-> namespace, id |-> id ]
        ELSE IF id_spec = "any" /\ s # << >>
        THEN [ kind |-> "Some", namespace |-> << >>, id |-> s ]
        ELSE None

\* variant of extract_id that takes every text that is not empty as an ID
extract_id_of_any_text(s, id_spec) ==
    IF s = << >> THEN [ kind |-> "Err" ]
    ELSE [ kind |-> "Ok", full |-> s, namespace |-> << >>, id |-> s ]

\* id_splitter::extract_id
extract_id(s, id_spec) ==
    LET found == captures(s, id_spec)
    IN  IF found = None THEN [ kind |-> "Err" ]
        ELSE IF trim(found.id) = << >> THEN [ kind |-> "Err" ]
        ELSE [ kind      |-> "Ok",
               full      |-> s,
               namespace |-> trim(found.namespace),
               id        |-> trim(found.id) ]

\* variant of the main loop of id_splitter::split that keeps the last ID of
\* a record that parses
id_splitter_token_last_id ==
    /\ phase = "records"
    /\ config.unique_id
    /\ LET r     == Scanner_next(text, scanner)
           token == r.item.token
           line  == r.item.line
       IN  /\ r.item # None
           /\ scanner_advances(r)
           /\ IF token.kind = "Tagged" /\ token.tag = config.record_tag
              THEN /\ issues' = IF trim(token.text) = << >>
                                THEN Append(issues,
                                       [ kind |-> "MissingRecordLabel",
                                         line |-> line.line ])
                                ELSE issues
                   /\ splitter' = [ splitter EXCEPT !.record_start = line ]
              ELSE IF token.kind = "Tagged" /\ token.tag = config.id_tag
              THEN LET extra == IF splitter.record_id # None
                                THEN << [ kind   |-> "ExtraneousID",
                                          record |-> splitter.record_start.line,
                                          line   |-> line.line ] >>
                                ELSE << >>
                       id    == extract_id(trim(token.text), config.id_spec)
                   IN  IF id.kind = "Ok"
                       THEN /\ issues' = issues \o extra
                            /\ splitter' =
                                 [ splitter EXCEPT
                                     !.record_id = id,
                                     !.record_id_line = line ]
                       ELSE /\ issues' = issues \o extra \o
                                 << [ kind   |-> "InvalidID",
                                      record |-> splitter.record_start.line,
                                      line   |-> line.line ] >>
                            /\ UNCHANGED splitter
              ELSE IF token.kind = "Untagged"
              THEN /\ issues' = Append(issues,
                         [ kind |-> "UntaggedLine", line |-> line.line ])
                   /\ UNCHANGED splitter
              ELSE IF token.kind = "RecordEnd"
              THEN IF splitter.record_id # None
                   THEN /\ splitter' =
                             [ splitter EXCEPT
                                 !.id_map = Append(@,
                                     [ key     |-> splitter.record_id,
                                       record  |-> splitter.record_start,
                                       id_line |-> splitter.record_id_line,
                                       body    |-> token.body ]),
                                 !.record_id = None ]
                        /\ UNCHANGED issues
                   ELSE /\ splitter' = push(splitter, "id_missing", token.body)
                        /\ issues' = Append(issues,
                              [ kind |-> "MissingID",
                                line |-> splitter.record_start.line ])
              ELSE UNCHANGED << issues, splitter >>
    /\ UNCHANGED << config, text, phase, objects, load_error, stage_vars,
                    filter_vars, util_vars,
                    reconstruct_vars, line_vars >>

\* id_splitter::split, lines 117-190: one token of the main loop
id_splitter_token ==
    /\ phase = "records"
    /\ config.unique_id
    /\ LET r     == Scanner_next(text, scanner)
           token == r.item.token
           line  == r.item.line
       IN  /\ r.item # None
           /\ scanner_advances(r)
           /\ IF token.kind = "Tagged" /\ token.tag = config.record_tag
              THEN /\ issues' = IF trim(token.text) = << >>
                                THEN Append(issues,
                                       [ kind |-> "MissingRecordLabel",
                                         line |-> line.line ])
                                ELSE issues
                   /\ splitter' = [ splitter EXCEPT !.record_start = line ]
              ELSE IF token.kind = "Tagged" /\ token.tag = config.id_tag
              THEN LET extra == IF splitter.record_id # None
                                THEN << [ kind   |-> "ExtraneousID",
                                          record |-> splitter.record_start.line,
                                          line   |-> line.line ] >>
                                ELSE << >>
                       id    == extract_id(trim(token.text), config.id_spec)
                   IN  IF id.kind = "Ok"
                       THEN /\ issues' = issues \o extra
                            /\ splitter' =
                                 IF splitter.record_id = None
                                 THEN [ splitter EXCEPT
                                          !.record_id = id,
                                          !.record_id_line = line ]
                                 ELSE splitter
                       ELSE /\ issues' = issues \o extra \o
                                 << [ kind   |-> "InvalidID",
                                      record |-> splitter.record_start.line,
                                      line   |-> line.line ] >>
                            /\ UNCHANGED splitter
              ELSE IF token.kind = "Untagged"
              THEN /\ issues' = Append(issues,
                         [ kind |-> "UntaggedLine", line |-> line.line ])
                   /\ UNCHANGED splitter
              ELSE IF token.kind = "RecordEnd"
              THEN IF splitter.record_id # None
                   THEN /\ splitter' =
                             [ splitter EXCEPT
                                 !.id_map = Append(@,
                                     [ key     |-> splitter.record_id,
                                       record  |-> splitter.record_start,
                                       id_line |-> splitter.record_id_line,
                                       body    |-> token.body ]),
                                 !.record_id = None ]
                        /\ UNCHANGED issues
                   ELSE /\ splitter' = push(splitter, "id_missing", token.body)
                        /\ issues' = Append(issues,
                              [ kind |-> "MissingID",
                                line |-> splitter.record_start.line ])
              ELSE UNCHANGED << issues, splitter >>
    /\ UNCHANGED << config, text, phase, objects, load_error, stage_vars,
                    filter_vars, util_vars,
                    reconstruct_vars, line_vars >>

\* variant of ambiguous_ids that reports an ID from its second record on
ambiguous_ids_repeated(id_map) ==
    { i \in DOMAIN id_map :
        \E j \in DOMAIN id_map : j < i /\ id_map[j].key = id_map[i].key }

\* id_splitter::split, lines 193-202: the ambiguous IDs
ambiguous_ids(id_map) ==
    { i \in DOMAIN id_map :
        \E j \in DOMAIN id_map : j # i /\ id_map[j].key = id_map[i].key }

\* a sequence that holds the elements of a set once each
RECURSIVE seq_of(_)
seq_of(S) ==
    IF S = { } THEN << >>
    ELSE LET x == CHOOSE y \in S : TRUE IN << x >> \o seq_of(S \ { x })

\* variant of sorted_orders that leaves the issues as they were pushed
pushed_order(list) == { list }

\* sort_unstable_by_key(|issue| issue.line()): the orders the sort can
\* leave the issues in; issues of one line come in any order
RECURSIVE sorted_orders(_)
sorted_orders(list) ==
    IF list = << >> THEN { << >> }
    ELSE LET firsts == { i \in DOMAIN list :
                           \A j \in DOMAIN list : list[i].line <= list[j].line }
             without(i) == SubSeq(list, 1, i - 1)
                             \o SubSeq(list, i + 1, Len(list))
         IN  UNION { { << list[i] >> \o rest :
                         rest \in sorted_orders(without(i)) } : i \in firsts }

\* id_splitter::split, lines 210-214: the path of the object of an ID
id_path(id) ==
    IF id.namespace # << >>
    THEN << "private", "/" >> \o id.namespace \o << "/" >> \o id.full
         \o << ".txt" >>
    ELSE << "public", "/" >> \o build_path_prefix(id.id) \o << "/" >>
         \o id.full \o << ".txt" >>

\* id_splitter::split, lines 208-222: the object of one ID
id_object(id_map, id) ==
    [ path    |-> components(id_path(id)),
      content |-> join(values_of(id_map, id), << "\n" >>) ]

\* id_splitter::split, lines 193-250: the scanner is exhausted
id_splitter_result ==
    /\ phase = "records"
    /\ config.unique_id
    /\ Scanner_next(text, scanner).item = None
    /\ LET found     == seq_of(ambiguous_ids(splitter.id_map))
           ambiguous == [ k \in DOMAIN found |->
                            [ kind   |-> "AmbiguousID",
                              record |-> splitter.id_map[found[k]].record.line,
                              line   |-> splitter.id_map[found[k]].id_line.line ] ]
       IN  issues' \in sorted_orders(issues \o ambiguous)
    /\ IF \A id \in keys_of(splitter.id_map) : Clob_validated(id_path(id))
       THEN /\ objects' = { id_object(splitter.id_map, id) :
                              id \in keys_of(splitter.id_map) }
                          \cup { [ path    |-> << "invalid", "id_missing.txt" >>,
                                   content |-> join(splitter.id_missing,
                                                    << "\n" >>) ] }
                          \cup orphan_object(splitter.orphaned_lines)
            /\ phase' = "done"
       ELSE /\ objects' = { }
            /\ phase' = "panic"
    /\ UNCHANGED << config, text, scanner, splitter, yielded, load_error,
                    stage_vars, filter_vars, util_vars,
                    reconstruct_vars, line_vars >>

\* ------------------------------------------------------------------ texts

\* the lines a dictionary text is made of: records with the labels "a", "A"
\* and none, id lines (a plain id, an id with a namespace, an invalid id),
\* a blank line and an untagged line
Lines ==
    { << "\\", "l", " ", "a" >>,
      << "\\", "l", " ", "A" >>,
      << "\\", "l" >>,
      << "\\", "i", " ", "1" >>,
      << "\\", "i", " ", "a", "1" >>,
      << "\\", "i", " ", "x" >>,
      << >>,
      << "x" >> }

\* the texts of n lines, each line with its line break
RECURSIVE texts_of(_)
texts_of(n) ==
    IF n = 0 THEN { << >> }
    ELSE { line \o << "\n" >> \o rest : line \in Lines, rest \in texts_of(n - 1) }

\* a text with or without the header line, and with or without the line
\* break of its last line
Texts ==
    LET bodies == UNION { texts_of(n) : n \in 0 .. MaxLines }
        whole  == bodies \cup { HeaderLine \o << "\n" >> \o b : b \in bodies }
    IN  whole \cup { SubSeq(t, 1, Len(t) - 1) : t \in whole \ { << >> } }

\* the configurations of a dictionary: grouped by label or by unique id,
\* with a record tag of its own or with the tag of the header line
Configs ==
    { [ record_tag |-> tag, unique_id |-> by_id,
        id_tag |-> << "\\", "i" >>, id_spec |-> "sample" ] :
      tag \in { << "\\", "l" >>, << "\\", "_sh" >> }, by_id \in BOOLEAN }

\* a dictionary of one of the configurations, with one of the texts, is
\* about to be loaded; stage is not running
Loading(configs, texts) ==
    /\ config \in configs
    /\ text \in texts
    /\ scanner = Scanner_from(text, config.record_tag)
    /\ phase = "header"
    /\ issues = << >>
    /\ splitter = split_locals
    /\ yielded = << >>
    /\ objects = { }
    /\ load_error = None
    /\ filter_idle
    /\ util_idle
    /\ reconstruct_idle
    /\ line_idle
    /\ ignore_case = FALSE
    /\ cwd = "workdir"
    /\ discard_workdir_changes = FALSE
    /\ clobs = << >>
    /\ head = { }
    /\ index = << >>
    /\ index_file = << >>
    /\ index_writes = 0
    /\ worktree = << >>
    /\ dirs = { }
    /\ stray = { }
    /\ pc = "idle"
    /\ result = "none"
    /\ summaries = << >>
    /\ cur = 1
    /\ todo = { }
    /\ deleted_path_parents = { }
    /\ start = << >>

SplitInit == Loading(Configs, Texts)

SplitNext ==
    \/ expect_toolbox_dictionary_header
    \/ split_orphaned_lines
    \/ record_splitter_token
    \/ record_splitter_result
    \/ id_splitter_token
    \/ id_splitter_result

SplitSpec == SplitInit /\ [][SplitNext]_vars

\* ------------------------------------------------------------------ records

\* the bodies of the RecordEnd tokens the scanner has yielded, in order
RECURSIVE record_bodies(_)
record_bodies(items) ==
    IF items = << >> THEN << >>
    ELSE ( IF items[1].token.kind = "RecordEnd"
           THEN << items[1].token.body >> ELSE << >> )
         \o record_bodies(Tail(items))

\* the bodies split has put into the record lists of its objects
stored_bodies ==
    [ i \in DOMAIN splitter.clobs |-> splitter.clobs[i].body ]
    \o [ i \in DOMAIN splitter.id_map |-> splitter.id_map[i].body ]
    \o splitter.id_missing

\* how often a sequence holds a value
count(list, x) == Cardinality({ i \in DOMAIN list : list[i] = x })

\* the string holds the part as one contiguous run
is_infix(part, whole) ==
    \E at \in 0 .. (Len(whole) - Len(part)) :
      SubSeq(whole, at + 1, at + Len(part)) = part

\* C1: in both splitter variants every record body the scanner yields is in
\* the content of exactly one emitted object, byte for byte and contiguous:
\* split keeps each body as often as the scanner yields it (none dropped,
\* none duplicated), every body is one run of the content of an object,
\* and no two objects have the same path.
C1_every_record_body_in_one_object ==
    phase = "done" =>
      LET bodies == record_bodies(yielded)
      IN  /\ \A i \in DOMAIN bodies :
               /\ count(stored_bodies, bodies[i]) = count(bodies, bodies[i])
               /\ \E o \in objects : is_infix(bodies[i], o.content)
          /\ \A i \in DOMAIN stored_bodies :
               count(stored_bodies, stored_bodies[i])
                 = count(bodies, stored_bodies[i])
          /\ \A o1, o2 \in objects : o1.path = o2.path => o1 = o2

\* ------------------------------------------------------------------ unique ids

\* lines of a dictionary text in the texts with unique ids
MaxIdLines == 6

\* the texts of n lines drawn from a set of lines, each with its line break
RECURSIVE texts_from(_, _)
texts_from(lines, n) ==
    IF n = 0 THEN { << >> }
    ELSE { line \o << "\n" >> \o rest :
             line \in lines, rest \in texts_from(lines, n - 1) }

\* a record line, the id "1" without a namespace, the id "a1" with the
\* namespace "a", and a blank line
IdLines ==
    { << "\\", "l", " ", "a" >>,
      << "\\", "i", " ", "1" >>,
      << "\\", "i", " ", "a", "1" >>,
      << >> }

\* texts of records with ids, with or without the header line
IdTexts ==
    LET bodies == UNION { texts_from(IdLines, n) : n \in 0 .. MaxIdLines }
    IN  bodies \cup { HeaderLine \o << "\n" >> \o b : b \in bodies }

\* the sample configuration of a dictionary with unique ids
IdConfigs ==
    { [ record_tag |-> << "\\", "l" >>, unique_id |-> TRUE,
        id_tag |-> << "\\", "i" >>, id_spec |-> "sample" ] }

IdSplitInit == Loading(IdConfigs, IdTexts)

IdSplitNext ==
    \/ expect_toolbox_dictionary_header
    \/ split_orphaned_lines
    \/ id_splitter_token
    \/ id_splitter_result

IdSplitSpec == IdSplitInit /\ [][IdSplitNext]_vars

\* the records of the token stream: for every RecordEnd token the line of
\* the RecordBegin token before it, the first ID that a line with the id
\* tag gave since then (or none), and the body
RECURSIVE records_from(_, _, _, _)
records_from(items, cfg, record_line, id) ==
    IF items = << >> THEN << >>
    ELSE LET token == items[1].token
             rest  == Tail(items)
         IN  IF token.kind = "RecordBegin"
             THEN records_from(rest, cfg, items[1].line.line, None)
             ELSE IF token.kind = "RecordEnd"
             THEN << [ id |-> id, record |-> record_line,
                       body |-> token.body ] >>
                  \o records_from(rest, cfg, record_line, None)
             ELSE IF /\ token.kind = "Tagged"
                     /\ token.tag # cfg.record_tag
                     /\ token.tag = cfg.id_tag
                     /\ record_line >= 0
                     /\ id = None
             THEN LET found == extract_id(trim(token.text), cfg.id_spec)
                  IN  records_from(rest, cfg, record_line,
                                   IF found.kind = "Ok" THEN found ELSE None)
             ELSE records_from(rest, cfg, record_line, id)

\* the bodies of the records with an ID, in the order of the text
RECURSIVE bodies_with(_, _)
bodies_with(records, id) ==
    IF records = << >> THEN << >>
    ELSE ( IF records[1].id = id THEN << records[1].body >> ELSE << >> )
         \o bodies_with(Tail(records), id)

\* the ambiguous-id diagnostics raised for the record that starts at a line
ambiguous_raised(record_line) ==
    { k \in DOMAIN issues :
        issues[k].kind = "AmbiguousID" /\ issues[k].record = record_line }

\* C11: in id mode the records with one and the same extracted ID are
\* merged into exactly one content object, whose content is their bodies
\* joined in the order of the text, and no other object holds any of them;
\* each record of an ID that k >= 2 records have raises exactly one
\* ambiguous-id diagnostic, and a record whose ID occurs once raises none.
C11_identical_ids_are_merged ==
    (phase = "done" /\ config.unique_id) =>
      LET records == records_from(yielded, config, -1, None)
      IN  \A i \in DOMAIN records :
            records[i].id # None =>
              LET bodies == bodies_with(records, records[i].id)
              IN  /\ Cardinality({ o \in objects :
                                     is_infix(records[i].body, o.content) }) = 1
                  /\ \E o \in objects :
                       o.content = join(bodies, << "\n" >>)
                  /\ Cardinality(ambiguous_raised(records[i].record))
                       = IF Len(bodies) >= 2 THEN 1 ELSE 0

\* C11: a text was split in which two records have the same ID and a third
\* record has an ID of its own
C11_witness ==
    /\ phase = "done"
    /\ config.unique_id
    /\ LET records == records_from(yielded, config, -1, None)
       IN  /\ \E i, j \in DOMAIN records :
                 i # j /\ records[i].id # None /\ records[i].id = records[j].id
           /\ \E i \in DOMAIN records :
                 /\ records[i].id # None
                 /\ Len(bodies_with(records, records[i].id)) = 1
           /\ \E k \in DOMAIN issues : issues[k].kind = "AmbiguousID"

\* ------------------------------------------------------------------ tokens

\* the line the scanner reads next, without its line break
next_line(t, sc) ==
    LET rest == SubSeq(t, sc.at, Len(t))
        nl   == find_newline(rest)
    IN  trim_end_matches(SubSeq(rest, 1, IF nl = 0 THEN Len(rest) ELSE nl))

\* a dictionary is being scanned
scanning == phase \in { "header", "orphans", "records" }

\* the scanner is about to read a line whose tag is the record tag
at_record_line ==
    /\ scanning
    /\ scanner.queue = << >>
    /\ scanner.at <= Len(text)
    /\ LET parsed == ParsedLine(next_line(text, scanner))
       IN  parsed.kind = "Tagged" /\ parsed.tag = scanner.record_tag

\* the items of the next n calls of Scanner::next, and the scanner after them
RECURSIVE next_items(_, _, _)
next_items(t, sc, n) ==
    IF n = 0 THEN [ scanner |-> sc, items |-> << >> ]
    ELSE LET r    == Scanner_next(t, sc)
             more == next_items(t, r.scanner, n - 1)
         IN  [ scanner |-> more.scanner,
               items   |-> << r.item >> \o more.items ]

\* C12: when the scanner reads a line whose tag is the record tag, the
\* next tokens it yields are RecordEnd (only when a record was open), then
\* RecordBegin, then Tagged for the line itself; all of them carry the
\* number and the text of that line, and after them the queue is empty, so
\* that no other token comes between them.
C12_record_line_token_order ==
    at_record_line =>
      LET line   == next_line(text, scanner)
          parsed == ParsedLine(line)
          open   == scanner.start # 0
          n      == IF open THEN 3 ELSE 2
          next   == next_items(text, scanner, n)
          items  == next.items
      IN  /\ \A k \in 1 .. n :
               /\ items[k] # None
               /\ items[k].line = [ line |-> scanner.next_line_i,
                                    text |-> line ]
          /\ open => items[1].token.kind = "RecordEnd"
          /\ items[n - 1].token = [ kind |-> "RecordBegin" ]
          /\ items[n].token = parsed
          /\ next.scanner.queue = << >>
          /\ next.scanner.next_line_i = scanner.next_line_i + 1

\* C12: the scanner has just yielded the three tokens of a record line that
\* ended an open record
C12_witness ==
    /\ scanning
    /\ scanner.queue = << >>
    /\ Len(yielded) >= 3
    /\ LET n == Len(yielded)
       IN  /\ yielded[n - 2].token.kind = "RecordEnd"
           /\ yielded[n - 1].token.kind = "RecordBegin"
           /\ yielded[n].token.kind = "Tagged"
           /\ yielded[n].token.tag = scanner.record_tag
           /\ yielded[n - 2].line = yielded[n].line
           /\ yielded[n - 1].line = yielded[n].line

\* ------------------------------------------------------------------ bodies

\* lines of a dictionary text in the texts with blank lines of every kind
MaxScanLines == 3

\* a record line, the same with a carriage return, a tagged line of the
\* record, and three blank lines: empty, a space, a carriage return
ScanLines ==
    { << "\\", "l", " ", "a" >>,
      << "\\", "l", " ", "a", "\r" >>,
      << "\\", "g", " ", "b" >>,
      << >>,
      << " " >>,
      << "\r" >> }

\* texts with or without the header line, and with or without the line
\* break of the last line
ScanTexts ==
    LET bodies == UNION { texts_from(ScanLines, n) : n \in 0 .. MaxScanLines }
        whole  == bodies \cup { HeaderLine \o << "\n" >> \o b : b \in bodies }
    IN  whole \cup { SubSeq(t, 1, Len(t) - 1) : t \in whole \ { << >> } }

\* dictionaries grouped by label or by unique id, with a record tag of
\* their own
ScanConfigs == { c \in Configs : c.record_tag = << "\\", "l" >> }

ScanInit == Loading(ScanConfigs, ScanTexts)

ScanSpec == ScanInit /\ [][SplitNext]_vars

\* the positions of the text where a line with the record tag starts
record_starts(t, record_tag) ==
    { i \in 1 .. Len(t) :
        /\ i = 1 \/ t[i - 1] = "\n"
        /\ LET parsed == ParsedLine(next_line(t, [ at |-> i ]))
           IN  parsed.kind = "Tagged" /\ parsed.tag = record_tag }

\* the k-th smallest number of a set
nth(S, k) == CHOOSE x \in S : Cardinality({ y \in S : y < x }) = k - 1

\* the source of the k-th record: from its tag line to the tag line of the
\* next record, or to the end of the text
record_source(t, record_tag, k) ==
    LET starts == record_starts(t, record_tag)
    IN  SubSeq(t, nth(starts, k),
               IF k < Cardinality(starts) THEN nth(starts, k + 1) - 1
               ELSE Len(t))

\* the last line of a string, without its line break
last_line_of(s) ==
    LET end    == IF s # << >> /\ s[Len(s)] = "\n" THEN Len(s) - 1 ELSE Len(s)
        breaks == { i \in 1 .. end : s[i] = "\n" }
        first  == IF breaks = { } THEN 1
                  ELSE 1 + CHOOSE i \in breaks : \A j \in breaks : j <= i
    IN  SubSeq(s, first, end)

\* b is the string raw without its trailing whitespace-only lines: a prefix
\* of raw, what follows it is whitespace only, its last line is not, and it
\* keeps the line break of its last line
is_trimmed(b, raw) ==
    /\ Len(b) <= Len(raw)
    /\ SubSeq(raw, 1, Len(b)) = b
    /\ is_blank(SubSeq(raw, Len(b) + 1, Len(raw)))
    /\ b # << >> => ~is_blank(last_line_of(b))
    /\ Len(b) < Len(raw) /\ b # << >> => b[Len(b)] = "\n"

\* every contiguous part of a string
substrings(t) ==
    { SubSeq(t, i, j) : i \in 1 .. Len(t) + 1, j \in 0 .. Len(t) }

\* C13: the body of the k-th RecordEnd token is the source of the k-th
\* record (from its own tag line to the next record tag line or the end of
\* the text) without its trailing whitespace-only lines and with the line
\* break of its last other line; trim_trailing_empty_lines returns a prefix
\* of its input and is idempotent, for every part of every text.
C13_body_is_trimmed_source ==
    /\ scanning \/ phase = "done" =>
         LET bodies == record_bodies(yielded)
             starts == record_starts(text, config.record_tag)
         IN  \A k \in DOMAIN bodies :
               /\ k <= Cardinality(starts)
               /\ is_trimmed(bodies[k],
                             record_source(text, config.record_tag, k))
    /\ phase = "header" =>
         \A u \in substrings(text) :
           LET v == trim_trailing_empty_lines(u)
           IN  /\ Len(v) <= Len(u)
               /\ SubSeq(u, 1, Len(v)) = v
               /\ trim_trailing_empty_lines(v) = v

\* C13: a record that ends in whitespace-only lines was closed by the tag
\* line of the next record, and its body is shorter than its source
C13_witness ==
    /\ phase = "done"
    /\ \E k \in DOMAIN record_bodies(yielded) :
         /\ k < Cardinality(record_starts(text, config.record_tag))
         /\ Len(record_bodies(yielded)[k])
              < Len(record_source(text, config.record_tag, k))
         /\ record_bodies(yielded)[k][Len(record_bodies(yielded)[k])] = "\n"

\* ------------------------------------------------------------------ header

\* the lines of a text, without their line breaks, as the scanner reads them
RECURSIVE lines_of(_)
lines_of(t) ==
    IF t = << >> THEN << >>
    ELSE LET nl  == find_newline(t)
             end == IF nl = 0 THEN Len(t) ELSE nl
         IN  << trim_end_matches(SubSeq(t, 1, end)) >>
             \o lines_of(SubSeq(t, end + 1, Len(t)))

\* the number of the first line that is not blank, or -1
first_non_blank(t) ==
    LET ls    == lines_of(t)
        found == { i \in DOMAIN ls : ParsedLine(ls[i]).kind # "Blank" }
    IN  IF found = { } THEN -1
        ELSE (CHOOSE i \in found : \A j \in found : i <= j) - 1

\* the first line that is not blank is a dictionary header
header_expected(t) ==
    /\ first_non_blank(t) >= 0
    /\ is_header(lines_of(t)[first_non_blank(t) + 1])

\* the items the scanner yielded after the header check: the check takes
\* one item for each blank line and one for the first line that is not blank
after_header_check ==
    LET taken == IF first_non_blank(text) >= 0 THEN first_non_blank(text) + 1
                 ELSE Len(lines_of(text))
    IN  SubSeq(yielded, taken + 1, Len(yielded))

\* the missing-dictionary-header diagnostics
missing_header_issues ==
    { k \in DOMAIN issues : issues[k].kind = "MissingDictionaryHeader" }

\* C14: the header check skips blank lines and tests the first line that is
\* not blank.  On a mismatch a strict load fails with a missing-header
\* error that names the number of that line and yields no dictionary; a
\* load that is not strict records exactly one MissingDictionaryHeader
\* diagnostic with that number and restarts the scanner, so that every line
\* of the text is scanned again from line 0.  On a match there is no error
\* and no diagnostic, and every item the scanner yields after the check
\* comes from a line after the header.
C14_header_check ==
    LET tested == first_non_blank(text)
    IN  /\ phase = "failed" =>
             /\ ~header_expected(text)
             /\ load_error.kind = "ToolboxDictionaryMissingHeader"
             /\ tested >= 0 => load_error.line = tested
             /\ objects = { }
             /\ issues = << >>
        /\ phase \in { "orphans", "records", "done" } =>
             /\ load_error = None
             /\ IF header_expected(text)
                THEN /\ missing_header_issues = { }
                     /\ \A k \in DOMAIN after_header_check :
                          after_header_check[k].line.line > tested
                ELSE /\ Cardinality(missing_header_issues) = 1
                     /\ \A k \in missing_header_issues :
                          tested >= 0 => issues[k].line = tested
                     /\ after_header_check # << >> =>
                          after_header_check[1].line.line = 0
                     /\ phase = "done" =>
                          { after_header_check[k].line.line :
                              k \in DOMAIN after_header_check }
                            = 0 .. (Len(lines_of(text)) - 1)

\* ------------------------------------------------------------------ paths of objects

\* lines of a dictionary text in the texts with characters outside of ASCII
MaxUnicodeLines == 3

\* records with a label outside of ASCII, and ids with and without
\* characters outside of ASCII
UnicodeLines ==
    { << "\\", "l", " ", "U+0434" >>,
      << "\\", "l", " ", "a", "U+00E9" >>,
      << "\\", "i", " ", "U+0434", "1" >>,
      << "\\", "i", " ", "U+00E9" >>,
      << "\\", "i", " ", "a", "1" >> }

UnicodeTexts ==
    LET bodies == UNION { texts_from(UnicodeLines, n) :
                            n \in 0 .. MaxUnicodeLines }
    IN  bodies \cup { HeaderLine \o << "\n" >> \o b : b \in bodies }

\* dictionaries grouped by label, by the ids of the sample id-spec, and by
\* the ids of an id-spec that takes every text as an id
UnicodeConfigs ==
    { [ record_tag |-> << "\\", "l" >>, unique_id |-> FALSE,
        id_tag |-> << "\\", "i" >>, id_spec |-> "sample" ],
      [ record_tag |-> << "\\", "l" >>, unique_id |-> TRUE,
        id_tag |-> << "\\", "i" >>, id_spec |-> "sample" ],
      [ record_tag |-> << "\\", "l" >>, unique_id |-> TRUE,
        id_tag |-> << "\\", "i" >>, id_spec |-> "any" ] }

UnicodeInit == Loading(UnicodeConfigs, UnicodeTexts)

UnicodeSpec == UnicodeInit /\ [][SplitNext]_vars

\* C15: in both splitter variants the assertion of Clob::validated never
\* fails, and the path of every content object split returns (built from a
\* label, or from an id and its namespace) is ASCII only.
C15_object_paths_are_ascii ==
    /\ phase # "panic"
    /\ phase = "done" =>
         /\ \A i \in DOMAIN splitter.clobs :
              Clob_validated(label_path(splitter.clobs[i].key))
         /\ \A i \in DOMAIN splitter.id_map :
              Clob_validated(id_path(splitter.id_map[i].key))

\* ------------------------------------------------------------------ diagnostics

\* C16: the diagnostics split returns are in non-decreasing order of their
\* source lines, in the label-grouped and in the unique-id-grouped variant,
\* the missing-dictionary-header diagnostic of the load included.
C16_diagnostics_in_line_order ==
    phase \in { "done", "panic" } =>
      \A i, j \in DOMAIN issues : i < j => issues[i].line <= issues[j].line

\* C16: split by unique id returned a missing-id diagnostic for a record
\* together with a diagnostic for a later line of that record, which was
\* raised first, and the diagnostic of a missing header
C16_witness ==
    /\ phase = "done"
    /\ config.unique_id
    /\ \E i, j, k \in DOMAIN issues :
         /\ issues[i].kind = "MissingID"
         /\ issues[j].kind = "UntaggedLine"
         /\ issues[i].line < issues[j].line
         /\ issues[k].kind = "MissingDictionaryHeader"

\* ------------------------------------------------------------------ path prefix

\* characters of a name given to build_path_prefix
MaxNameLen == 5

\* a lower-case and an upper-case letter, a digit, a hyphen, a letter that
\* decomposes into a letter and a combining mark, and a letter outside of
\* ASCII that does not decompose
NameChars == { "a", "B", "1", "-", "U+00E9", "U+0434" }

Names == UNION { [ 1 .. n -> NameChars ] : n \in 0 .. MaxNameLen }

\* build_path_prefix is about to be called with a name; nothing else runs
PrefixInit ==
    /\ prefix_name \in Names
    /\ prefix = << >>
    /\ split_idle
    /\ filter_idle
    /\ reconstruct_idle
    /\ line_idle
    /\ ignore_case = FALSE
    /\ cwd = "workdir"
    /\ discard_workdir_changes = FALSE
    /\ clobs = << >>
    /\ head = { }
    /\ index = << >>
    /\ index_file = << >>
    /\ index_writes = 0
    /\ worktree = << >>
    /\ dirs = { }
    /\ stray = { }
    /\ pc = "idle"
    /\ result = "none"
    /\ summaries = << >>
    /\ cur = 1
    /\ todo = { }
    /\ deleted_path_parents = { }
    /\ start = << >>

\* util::build_path_prefix is called
call_build_path_prefix ==
    /\ prefix' = build_path_prefix(prefix_name)
    /\ UNCHANGED << prefix_name, stage_vars, split_vars, filter_vars,
                    reconstruct_vars, line_vars >>

PrefixNext == call_build_path_prefix

PrefixSpec == PrefixInit /\ [][PrefixNext]_vars

\* the first n elements of a sequence, or all of it
take(s, n) == SubSeq(s, 1, IF Len(s) < n THEN Len(s) ELSE n)

\* the letters and digits of the canonical decomposition of a name
RECURSIVE letters_and_digits(_)
letters_and_digits(cs) ==
    IF cs = << >> THEN << >>
    ELSE LET parts == IF cs[1] = "U+00E9" THEN << "e" >>
                      ELSE IF cs[1] = "-" THEN << >>
                      ELSE << cs[1] >>
         IN  parts \o letters_and_digits(Tail(cs))

\* C17: build_path_prefix(name) returns exactly two segments joined by one
\* '/', each of at most 2 code points; the segments together are the first
\* 4 alphanumeric code points of the canonically decomposed name, followed
\* by '_' as often as the name has fewer than 4 of them; the value depends
\* on the name only.
C17_prefix_is_two_padded_segments ==
    prefix # << >> =>
      LET slashes == { i \in DOMAIN prefix : prefix[i] = "/" }
          found   == take(letters_and_digits(prefix_name), 4)
          pad     == [ i \in 1 .. (4 - Len(found)) |-> "_" ]
      IN  /\ Cardinality(slashes) = 1
          /\ \A i \in slashes :
               /\ i - 1 <= 2
               /\ Len(prefix) - i <= 2
               /\ SubSeq(prefix, 1, i - 1) \o SubSeq(prefix, i + 1, Len(prefix))
                    = found \o pad
          /\ prefix = build_path_prefix(prefix_name)

\* C17: the prefix of a name with fewer than 4 letters and digits, one of
\* them from a decomposed letter, was built
C17_witness ==
    /\ prefix # << >>
    /\ Len(letters_and_digits(prefix_name)) \in 1 .. 3
    /\ \E i \in DOMAIN prefix_name : prefix_name[i] = "U+00E9"
    /\ \E i \in DOMAIN prefix_name : prefix_name[i] = "-"

\* ------------------------------------------------------------------ scenario

\* lines of a dictionary text in the texts of the scenario
MaxScenarioLines == 3

\* the line "\sh v3.0 1 Dictionary", which is not a dictionary header
ShLine == << "\\", "s", "h", " ", "v3.0", " ", "1", " ", "Dictionary" >>

\* the lines "\lx foo" and "\ge bar"
LxFoo == << "\\", "l", "x", " ", "f", "o", "o" >>
GeBar == << "\\", "g", "e", " ", "b", "a", "r" >>

ScenarioLines == { ShLine, HeaderLine, LxFoo, GeBar, << >> }

ScenarioTexts ==
    UNION { texts_from(ScenarioLines, n) : n \in 0 .. MaxScenarioLines }

\* the record tag is \lx; grouped by label, or by unique id
ScenarioConfigs ==
    { [ record_tag |-> << "\\", "l", "x" >>, unique_id |-> by_id,
        id_tag |-> << "\\", "i" >>, id_spec |-> "sample" ] :
      by_id \in BOOLEAN }

ScenarioInit == Loading(ScenarioConfigs, ScenarioTexts)

ScenarioSpec == ScenarioInit /\ [][SplitNext]_vars

\* the record of the scenario, without and with the line break of its last
\* line
FooRecord == LxFoo \o << "\n" >> \o GeBar
FooRecordLine == FooRecord \o << "\n" >>

\* the text of the scenario as it is written, "\sh v3.0 1 Dictionary\n\lx
\* foo\n\ge bar\n", and the same text with the dictionary header
\* "\_sh v3.0 1 Dictionary"
ShText == ShLine \o << "\n" >> \o FooRecordLine
HeaderText == HeaderLine \o << "\n" >> \o FooRecordLine

\* the path <shard(foo)>/foo.txt
FooPath == << "fo", "o_", "foo.txt" >>

label_mode == config.record_tag = << "\\", "l", "x" >> /\ ~config.unique_id

\* C18 as stated: for the text "\sh v3.0 1 Dictionary\n\lx foo\n\ge bar\n"
\* with the record tag \lx in label mode, split emits exactly one content
\* object, with the body "\lx foo\n\ge bar" and the path fo/o_/foo.txt.
C18_scenario_as_stated ==
    /\ (text = ShText /\ label_mode) => phase # "failed"
    /\ (text = ShText /\ label_mode /\ phase = "done") =>
         objects = { [ path |-> FooPath, content |-> FooRecord ] }

\* C18, amended: for the text "\_sh v3.0 1 Dictionary\n\lx foo\n\ge bar\n"
\* with the record tag \lx in label mode, the load does not fail and split
\* emits exactly one content object, with the body "\lx foo\n\ge bar\n"
\* (the line break of the last line kept) and the path fo/o_/foo.txt, and
\* no diagnostic.  For the text as stated, with the line "\sh v3.0 1
\* Dictionary", a strict load fails with the missing-header error of line
\* 0, and a load that is not strict gives this object and the object
\* invalid/__.txt that holds the first line.
C18_scenario_with_header ==
    /\ (text = HeaderText /\ label_mode) =>
         /\ phase # "failed"
         /\ phase = "done" =>
              /\ objects = { [ path |-> FooPath, content |-> FooRecordLine ] }
              /\ issues = << >>
    /\ (text = ShText /\ label_mode) =>
         /\ phase = "failed" =>
              load_error = [ kind |-> "ToolboxDictionaryMissingHeader",
                             line |-> 0 ]
         /\ phase = "done" =>
              objects = { [ path |-> FooPath, content |-> FooRecordLine ],
                          [ path    |-> << "invalid", "__.txt" >>,
                            content |-> ShLine \o << "\n" >> ] }

\* C18: the text with the dictionary header was split in label mode
C18_witness ==
    /\ text = HeaderText
    /\ label_mode
    /\ phase = "done"
    /\ objects # { }

\* ------------------------------------------------------------------ git_filter.rs

\* the dictionaries of the configuration the filter runs with
FilterDictionaries == DictionarySet \cup { "d3" }

\* the repository before the filter runs; another process (git add) may
\* hold index.lock
FilterInit ==
    /\ Repository(FilterDictionaries)
    /\ index_lock \in BOOLEAN
    /\ clean_path = << >>
    /\ report = [ kind |-> "None" ]
    /\ stdout = << >>

\* variant of check_for_lock that never finds the lock
check_for_lock_absent == FALSE

\* Repository::check_for_lock: <gitdir>/index.lock exists
check_for_lock == index_lock

\* ClobDiff::diff_marker
diff_marker(action) ==
    IF action.kind = "Add" THEN "added   "
    ELSE IF action.kind = "Update" THEN "modified"
    ELSE "deleted "

\* ClobDiff::filename: the text after the last '/' of the path
filename(action) == LET path == diff_path(action) IN path[Len(path)]

\* the characters of a file name
name_chars(f) ==
    IF f = "a.txt" THEN << "a", ".", "t", "x", "t" >>
    ELSE IF f = "A.txt" THEN << "A", ".", "t", "x", "t" >>
    ELSE IF f = "b.txt" THEN << "b", ".", "t", "x", "t" >>
    ELSE IF f = "c.txt" THEN << "c", ".", "t", "x", "t" >>
    ELSE IF f = "c2.txt" THEN << "c", "2", ".", "t", "x", "t" >>
    ELSE IF f = "c10.txt" THEN << "c", "1", "0", ".", "t", "x", "t" >>
    ELSE IF f = "a" THEN << "a" >>
    ELSE IF f = "a-b" THEN << "a", "-", "b" >>
    ELSE << "n", ".", "d", "a", "t" >>

\* the code point of a character
code_point(c) ==
    IF c = "-" THEN 45 ELSE IF c = "." THEN 46 ELSE IF c = "/" THEN 47
    ELSE IF c = "0" THEN 48 ELSE IF c = "1" THEN 49
    ELSE IF c = "2" THEN 50 ELSE IF c = "A" THEN 65 ELSE IF c = "a" THEN 97
    ELSE IF c = "b" THEN 98 ELSE IF c = "c" THEN 99 ELSE IF c = "d" THEN 100
    ELSE IF c = "n" THEN 110 ELSE IF c = "t" THEN 116 ELSE 120

\* char::is_ascii_digit
is_ascii_digit(c) == c \in { "0", "1", "2" }

\* the length of the run of digits a string starts with
RECURSIVE digits_len(_)
digits_len(cs) ==
    IF cs = << >> \/ ~is_ascii_digit(cs[1]) THEN 0
    ELSE 1 + digits_len(Tail(cs))

\* the number a run of digits denotes
RECURSIVE number(_)
number(ds) ==
    IF ds = << >> THEN 0
    ELSE 10 * number(SubSeq(ds, 1, Len(ds) - 1))
         + (code_point(ds[Len(ds)]) - 48)

\* variant of compare_str that compares every character by its code
\* point: -1 (Less), 0 (Equal) or 1 (Greater)
RECURSIVE compare_code_points(_, _)
compare_code_points(a, b) ==
    IF a = << >> /\ b = << >> THEN 0
    ELSE IF a = << >> THEN -1
    ELSE IF b = << >> THEN 1
    ELSE IF code_point(a[1]) < code_point(b[1]) THEN -1
    ELSE IF code_point(a[1]) > code_point(b[1]) THEN 1
    ELSE compare_code_points(Tail(a), Tail(b))

\* alphanumeric_sort::compare_str on the characters of two names: runs of
\* digits are compared as numbers, the other characters by code point
RECURSIVE compare_str(_, _)
compare_str(a, b) ==
    IF a = << >> /\ b = << >> THEN 0
    ELSE IF a = << >> THEN -1
    ELSE IF b = << >> THEN 1
    ELSE IF is_ascii_digit(a[1]) /\ is_ascii_digit(b[1])
    THEN LET na == digits_len(a)
             nb == digits_len(b)
             va == number(SubSeq(a, 1, na))
             vb == number(SubSeq(b, 1, nb))
         IN  IF va < vb THEN -1
             ELSE IF va > vb THEN 1
             ELSE compare_str(SubSeq(a, na + 1, Len(a)),
                              SubSeq(b, nb + 1, Len(b)))
    ELSE IF code_point(a[1]) < code_point(b[1]) THEN -1
    ELSE IF code_point(a[1]) > code_point(b[1]) THEN 1
    ELSE compare_str(Tail(a), Tail(b))

\* do_clean, lines 89-91: changes.sort_by(compare_str of the file names).
\* The sort is stable and the list it sorts has the order of a hash table:
\* every order of the changes in which no file name precedes a smaller one
sorted_by_filename(changes) ==
    { order \in [ 1 .. Cardinality(changes) -> changes ] :
        /\ \A i, j \in DOMAIN order : order[i] = order[j] => i = j
        /\ \A i, j \in DOMAIN order :
             i < j => compare_str(name_chars(filename(order[i])),
                                  name_chars(filename(order[j]))) <= 0 }

\* do_clean, lines 94-102: the report, as the list of the strings pushed
RECURSIVE fold_report(_)
fold_report(order) ==
    IF order = << >> THEN << >>
    ELSE << diff_marker(order[1]), " ", filename(order[1]), "\n" >>
         \o fold_report(Tail(order))

\* clean, lines 41-48: the index is locked; the filter fails before it
\* looks at the file
clean_locked ==
    /\ pc = "start"
    /\ check_for_lock
    /\ \E d \in FilterDictionaries : clean_path' = << d >>
    /\ pc' = "done"
    /\ result' = "UnableToStageManagedFile"
    /\ UNCHANGED << index_lock, report, stdout >>
    /\ UNCHANGED << ignore_case, cwd, discard_workdir_changes, clobs, start,
                    summaries, cur, todo, deleted_path_parents, split_vars,
                    util_vars,
                    reconstruct_vars, line_vars >>
    /\ unchanged_store

\* clean, lines 50-67, with do_clean returning the report of the changes
clean ==
    /\ pc = "start"
    /\ ~check_for_lock
    /\ \E d \in FilterDictionaries :
       \E stream \in Streams(d) :
         LET changes == diff_clobs_at_path(contents_root(d), stream)
         IN  \E order \in sorted_by_filename(changes) :
               /\ clean_path' = << d >>
               /\ clobs' = [ clobs EXCEPT ![d] = stream ]
               /\ report' = [ kind |-> "Ok", value |-> fold_report(order) ]
               /\ stdout' = IF fold_report(order) = << >>
                            THEN << MANAGED_FILE_TEXT >>
                            ELSE fold_report(order)
    /\ pc' = "done"
    /\ result' = "Ok"
    /\ UNCHANGED << index_lock, ignore_case, cwd, discard_workdir_changes,
                    start, summaries, cur, todo, deleted_path_parents,
                    split_vars, util_vars,
                    reconstruct_vars, line_vars >>
    /\ unchanged_store

\* clean, lines 55-67, with do_clean failing (the path is not a managed
\* file, the file cannot be read, the repository cannot be listed):
\* unwrap_or_default gives the empty report
clean_error ==
    /\ pc = "start"
    /\ ~check_for_lock
    /\ \E d \in FilterDictionaries \cup { "other" } : clean_path' = << d >>
    /\ report' = [ kind |-> "Err" ]
    /\ stdout' = << MANAGED_FILE_TEXT >>
    /\ pc' = "done"
    /\ result' = "Ok"
    /\ UNCHANGED << index_lock, ignore_case, cwd, discard_workdir_changes,
                    clobs, start, summaries, cur, todo,
                    deleted_path_parents, split_vars, util_vars,
                    reconstruct_vars, line_vars >>
    /\ unchanged_store

\* one command of the program: the clean filter, or stage
FilterNext ==
    \/ clean_locked
    \/ clean
    \/ clean_error
    \/ Next

FilterSpec == FilterInit /\ [][FilterNext]_vars

\* ------------------------------------------------------------------ the report

\* the filter ran for a managed file and do_clean computed its change-set
cleaned == pc = "done" /\ clean_path # << >> /\ report.kind = "Ok"

\* the change-set of the managed file the filter ran for
changes_cleaned ==
    diff_clobs_at_path(contents_root(clean_path[1]), clobs[clean_path[1]])

\* the position of a file name in the natural order of the file names
natural_rank(f) ==
    IF f = "A.txt" THEN 1 ELSE IF f = "a.txt" THEN 2
    ELSE IF f = "b.txt" THEN 3 ELSE IF f = "c.txt" THEN 4
    ELSE IF f = "c2.txt" THEN 5 ELSE IF f = "c10.txt" THEN 6 ELSE 7

\* the k-th line of standard output: its marker and its file name
line_of(k) == [ marker |-> stdout[4 * k - 3], name |-> stdout[4 * k - 1] ]

\* the marker of the kind of a change, padded to the width of "modified"
marker_of(kind) ==
    IF kind = "Add" THEN "added   "
    ELSE IF kind = "Update" THEN "modified"
    ELSE "deleted "

\* C19: when the index is not locked and the change-set of the managed
\* file is computed, clean writes the placeholder text if the change-set is
\* empty; otherwise it writes one line "<marker> <filename>" per change
\* (the marker of an added, modified or deleted object, one space, the last
\* component of the path, a line feed), in the natural order of the file
\* names.
C19_clean_output ==
    cleaned =>
      /\ ~index_lock
      /\ result = "Ok"
      /\ LET changes == changes_cleaned
             n       == Cardinality(changes)
         IN  IF changes = { }
             THEN stdout = << MANAGED_FILE_TEXT >>
             ELSE /\ Len(stdout) = 4 * n
                  /\ \A k \in 1 .. n :
                       /\ stdout[4 * k - 2] = " "
                       /\ stdout[4 * k] = "\n"
                  /\ \A c \in changes :
                       Cardinality({ k \in 1 .. n :
                           line_of(k) =
                             [ marker |-> marker_of(c.kind),
                               name   |-> LET path == diff_path(c)
                                          IN  path[Len(path)] ] }) = 1
                  /\ \A k \in 1 .. (n - 1) :
                       natural_rank(line_of(k).name)
                         <= natural_rank(line_of(k + 1).name)

\* C19: the filter wrote the lines of two changes whose file names differ
\* in a number
C19_witness ==
    /\ cleaned
    /\ Len(stdout) = 8
    /\ line_of(1).name = "c2.txt"
    /\ line_of(2).name = "c10.txt"

\* C20: no step of the program creates or removes the lock marker of the
\* index, and when the marker exists, clean fails with
\* UnableToStageManagedFile, computes no diff and writes nothing to
\* standard output.
C20_lock_is_only_checked ==
    /\ [][index_lock' = index_lock]_vars
    /\ []( (index_lock /\ clean_path # << >>) =>
             /\ pc = "done"
             /\ result = "UnableToStageManagedFile"
             /\ report.kind = "None"
             /\ stdout = << >> )
    /\ []( (index_lock /\ clean_path = << >>) => stdout = << >> )

\* C20: the filter ran while the index was locked
C20_witness ==
    /\ index_lock
    /\ clean_path # << >>
    /\ result = "UnableToStageManagedFile"

\* ------------------------------------------------------------------ reconstruct.rs

\* the number of objects under the path
MaxBlobs == 3

\* the names of the files and of the directories under the path
BlobFiles == { "a.txt", "c2.txt", "c10.txt", "n.dat" }
BlobDirs == { "a", "a-b" }

\* the paths under the path, relative to it
BlobPaths ==
    { << f >> : f \in BlobFiles }
    \cup { << d, f >> : d \in BlobDirs, f \in BlobFiles }

\* the objects of an index or of a tree: path -> content
BlobMaps ==
    UNION { [ paths -> { "c1", "c2" } ] :
            paths \in { ps \in SUBSET BlobPaths :
                          Cardinality(ps) <= MaxBlobs } }

\* the restriction of a map to some of its paths
restrict(blobs, paths) == [ p \in paths |-> blobs[p] ]

\* the revision holds the objects of the index, or only some of them
ReconstructInit ==
    /\ index_blobs \in BlobMaps
    /\ rev_blobs \in { restrict(index_blobs, ps) :
                         ps \in SUBSET DOMAIN index_blobs }
    /\ rev \in { "", "HEAD" }
    /\ bytes_out = << >>
    /\ reconstructed = "none"
    /\ split_idle
    /\ filter_idle
    /\ util_idle
    /\ line_idle
    /\ ignore_case = FALSE
    /\ cwd = "workdir"
    /\ discard_workdir_changes = FALSE
    /\ clobs = << >>
    /\ head = { }
    /\ index = << >>
    /\ index_file = << >>
    /\ index_writes = 0
    /\ worktree = << >>
    /\ dirs = { }
    /\ stray = { }
    /\ pc = "idle"
    /\ result = "none"
    /\ summaries = << >>
    /\ cur = 1
    /\ todo = { }
    /\ deleted_path_parents = { }
    /\ start = << >>

\* b"\\_sh v3.0  864  Dictionary\n"
DICTIONARY_HEADER == "\\_sh v3.0  864  Dictionary\n"

\* the characters of a path: its names joined with '/'
RECURSIVE path_chars(_)
path_chars(p) ==
    IF Len(p) = 1 THEN name_chars(p[1])
    ELSE name_chars(p[1]) \o << "/" >> \o path_chars(Tail(p))

\* alphanumeric_sort::sort_str_slice on the paths: every order in which no
\* path precedes a smaller one
sort_str_slice(paths) ==
    { order \in [ 1 .. Cardinality(paths) -> paths ] :
        /\ \A i, j \in DOMAIN order : order[i] = order[j] => i = j
        /\ \A i, j \in DOMAIN order :
             i < j => compare_str(path_chars(order[i]),
                                  path_chars(order[j])) <= 0 }

\* lines 117-120 and 157-160: the accumulator holds the header, so a line
\* feed goes before the content of every blob
RECURSIVE extend_content(_, _)
extend_content(order, blobs) ==
    IF order = << >> THEN << >>
    ELSE << "\n", blobs[order[1]] >> \o extend_content(Tail(order), blobs)

\* reconstruct_from_index: what it can return for the entries of the index
from_index(blobs) ==
    LET paths == { p \in DOMAIN blobs : ends_with_txt(p) }
    IN  IF paths = { }
        THEN { [ result |-> "GitObjNotFound", bytes |-> << >> ] }
        ELSE { [ result |-> "Ok",
                 bytes  |-> << DICTIONARY_HEADER >>
                            \o extend_content(order, blobs) ] :
               order \in sort_str_slice(paths) }

\* collect_blobs_in_natural_order, lines 176-179: the entries of a tree by
\* name.  No two names of an entry set of the model compare equal, so the
\* stable sort has one outcome
sorted_entries(names) ==
    CHOOSE order \in [ 1 .. Cardinality(names) -> names ] :
        /\ \A i, j \in DOMAIN order : order[i] = order[j] => i = j
        /\ \A i, j \in DOMAIN order :
             i < j => compare_str(name_chars(order[i]),
                                  name_chars(order[j])) <= 0

\* collect_blobs_in_natural_order: the paths of the blobs in the order of
\* the callbacks; walk_entries is the loop of lines 182-203
RECURSIVE collect_blobs_in_natural_order(_)
RECURSIVE walk_entries(_, _)
walk_entries(entries, paths) ==
    IF entries = << >> THEN << >>
    ELSE LET name == entries[1]
             here ==
               IF << name >> \in paths
               THEN IF ends_with_txt(<< name >>) THEN << << name >> >>
                    ELSE << >>
               ELSE LET below == collect_blobs_in_natural_order(
                                   { Tail(p) : p \in { q \in paths :
                                                         q[1] = name } })
                    IN  [ k \in DOMAIN below |-> << name >> \o below[k] ]
         IN  here \o walk_entries(Tail(entries), paths)

collect_blobs_in_natural_order(paths) ==
    walk_entries(sorted_entries({ p[1] : p \in paths }), paths)

\* reconstruct_from_rev: what it returns for the tree of the revision at
\* the path; git keeps no empty tree, so a path without objects is not in
\* the revision
from_rev(blobs) ==
    IF DOMAIN blobs = { }
    THEN [ result |-> "OtherGitError", bytes |-> << >> ]
    ELSE [ result |-> "Ok",
           bytes  |-> << DICTIONARY_HEADER >>
                      \o extend_content(
                           collect_blobs_in_natural_order(DOMAIN blobs),
                           blobs) ]

unchanged_by_reconstruct ==
    UNCHANGED << index_blobs, rev_blobs, rev, stage_vars, split_vars,
                 filter_vars, util_vars, line_vars >>

\* reconstruct, lines 30-32: the revision is empty
reconstruct_from_index ==
    /\ reconstructed = "none"
    /\ rev = ""
    /\ \E returned \in from_index(index_blobs) :
         /\ reconstructed' = returned.result
         /\ bytes_out' = returned.bytes
    /\ unchanged_by_reconstruct

\* reconstruct, lines 33-36: a revision is given
reconstruct_from_rev ==
    /\ reconstructed = "none"
    /\ rev # ""
    /\ reconstructed' = from_rev(rev_blobs).result
    /\ bytes_out' = from_rev(rev_blobs).bytes
    /\ unchanged_by_reconstruct

ReconstructNext ==
    \/ reconstruct_from_index
    \/ reconstruct_from_rev

ReconstructSpec == ReconstructInit /\ [][ReconstructNext]_vars

\* ------------------------------------------------------------------ the reconstructed file

\* the position of a path in the natural order of the path strings
\* ('-' and '.' come before '/', 2 before 10)
natural_path_rank(p) ==
    IF p = << "a-b", "a.txt" >> THEN 1
    ELSE IF p = << "a-b", "c2.txt" >> THEN 2
    ELSE IF p = << "a-b", "c10.txt" >> THEN 3
    ELSE IF p = << "a.txt" >> THEN 4
    ELSE IF p = << "a", "a.txt" >> THEN 5
    ELSE IF p = << "a", "c2.txt" >> THEN 6
    ELSE IF p = << "a", "c10.txt" >> THEN 7
    ELSE IF p = << "c2.txt" >> THEN 8
    ELSE IF p = << "c10.txt" >> THEN 9
    ELSE 10

\* the .txt objects of a map
txt_objects(blobs) ==
    { p \in DOMAIN blobs : p[Len(p)] \in { "a.txt", "c2.txt", "c10.txt" } }

\* the paths in natural order
in_natural_order(paths) ==
    CHOOSE order \in [ 1 .. Cardinality(paths) -> paths ] :
        \A i, j \in DOMAIN order :
            i < j => natural_path_rank(order[i]) < natural_path_rank(order[j])

\* the objects reconstruct was asked for
asked_blobs == IF rev = "" THEN index_blobs ELSE rev_blobs

\* C21: reconstruct returns the dictionary header line followed by the
\* content of every tracked .txt object under the path, of the revision or
\* of the index when the revision is empty, each once, in the natural
\* order of the paths, each after a line break.
C21_reconstruct_output ==
    reconstructed = "Ok" =>
      LET order == in_natural_order(txt_objects(asked_blobs))
      IN  /\ Len(bytes_out) = 1 + 2 * Len(order)
          /\ bytes_out[1] = DICTIONARY_HEADER
          /\ \A k \in DOMAIN order :
               /\ bytes_out[2 * k] = "\n"
               /\ bytes_out[2 * k + 1] = asked_blobs[order[k]]

\* what the caller of reconstruct gets: the bytes, or a failure
outcome(returned) ==
    [ ok |-> returned.result = "Ok", bytes |-> returned.bytes ]

\* C30: for the same objects in the index and in the tree of the revision,
\* reconstruct from the index and reconstruct from the revision return
\* identical bytes: the order by whole path and the order by directory
\* visit the objects in the same sequence.
C30_index_and_rev_agree ==
    (reconstructed # "none" /\ index_blobs = rev_blobs) =>
      { outcome(r) : r \in from_index(index_blobs) }
        = { outcome(from_rev(rev_blobs)) }

\* ------------------------------------------------------------------ lines

\* the length of a line
MaxLineLen == 5

\* the characters of a line: the marker, a letter, a space, a carriage
\* return
LineChars == { "\\", "t", " ", "\r" }

ParsedLines == UNION { [ 1 .. n -> LineChars ] : n \in 0 .. MaxLineLen }

LineInit ==
    /\ line_text \in ParsedLines
    /\ parsed_line = [ kind |-> "None" ]
    /\ split_idle
    /\ filter_idle
    /\ util_idle
    /\ reconstruct_idle
    /\ ignore_case = FALSE
    /\ cwd = "workdir"
    /\ discard_workdir_changes = FALSE
    /\ clobs = << >>
    /\ head = { }
    /\ index = << >>
    /\ index_file = << >>
    /\ index_writes = 0
    /\ worktree = << >>
    /\ dirs = { }
    /\ stray = { }
    /\ pc = "idle"
    /\ result = "none"
    /\ summaries = << >>
    /\ cur = 1
    /\ todo = { }
    /\ deleted_path_parents = { }
    /\ start = << >>

\* ParsedLine::from(line)
call_ParsedLine_from ==
    /\ parsed_line.kind = "None"
    /\ parsed_line' = ParsedLine(line_text)
    /\ UNCHANGED << line_text, stage_vars, split_vars, filter_vars,
                    util_vars, reconstruct_vars >>

LineNext == call_ParsedLine_from

LineSpec == LineInit /\ [][LineNext]_vars

\* C22: a line that starts with the marker is Tagged: the tag is the run
\* from the marker up to the first whitespace, the value is the rest, and
\* tag and value together are the line.  A line that does not start with
\* the marker and holds only whitespace is Blank.  Every other line, one
\* with whitespace before a marker included, is Untagged with the whole
\* line as its text.
C22_line_classification ==
    parsed_line.kind # "None" =>
      IF line_text # << >> /\ line_text[1] = "\\"
      THEN /\ parsed_line.kind = "Tagged"
           /\ DOMAIN parsed_line = { "kind", "tag", "text" }
           /\ parsed_line.tag \o parsed_line.text = line_text
           /\ parsed_line.tag[1] = "\\"
           /\ \A i \in DOMAIN parsed_line.tag :
                parsed_line.tag[i] \notin { " ", "\r" }
           /\ parsed_line.text # << >> =>
                parsed_line.text[1] \in { " ", "\r" }
      ELSE IF \A i \in DOMAIN line_text : line_text[i] \in { " ", "\r" }
      THEN parsed_line = [ kind |-> "Blank" ]
      ELSE parsed_line = [ kind |-> "Untagged", text |-> line_text ]

\* C22: a line with whitespace before a marker was classified
C22_witness ==
    /\ line_text = << " ", "\\", "t", " ", "t" >>
    /\ parsed_line.kind = "Untagged"

\* ------------------------------------------------------------------ the token stream

\* calls of next() that are made after the first None
MaxNone == 3

\* the scanner of a text, before the first call of next()
ConsumeInit ==
    /\ config \in { c \in ScanConfigs : ~c.unique_id }
    /\ text \in ScanTexts
    /\ scanner = Scanner_from(text, config.record_tag)
    /\ phase = "next"
    /\ issues = << >>
    /\ splitter = split_locals
    /\ yielded = << >>
    /\ objects = { }
    /\ load_error = None
    /\ filter_idle
    /\ util_idle
    /\ reconstruct_idle
    /\ line_idle
    /\ ignore_case = FALSE
    /\ cwd = "workdir"
    /\ discard_workdir_changes = FALSE
    /\ clobs = << >>
    /\ head = { }
    /\ index = << >>
    /\ index_file = << >>
    /\ index_writes = 0
    /\ worktree = << >>
    /\ dirs = { }
    /\ stray = { }
    /\ pc = "idle"
    /\ result = "none"
    /\ summaries = << >>
    /\ cur = 1
    /\ todo = { }
    /\ deleted_path_parents = { }
    /\ start = << >>

\* the positions of the items of a kind among the items yielded
positions(kind) ==
    { i \in DOMAIN yielded :
        IF kind = "None" THEN yielded[i] = None
        ELSE yielded[i] # None /\ yielded[i].token.kind = kind }

\* Iterator::next on the scanner: one call, also after the scanner has
\* returned None
Iterator_next ==
    /\ phase = "next"
    /\ Cardinality(positions("None")) < MaxNone
    /\ LET called == Scanner_next(text, scanner)
       IN  /\ scanner' = called.scanner
           /\ yielded' = Append(yielded, called.item)
    /\ UNCHANGED << config, text, phase, issues, splitter, objects,
                    load_error, stage_vars, filter_vars, util_vars,
                    reconstruct_vars, line_vars >>

ConsumeNext == Iterator_next

ConsumeSpec == ConsumeInit /\ [][ConsumeNext]_vars

\* the number of lines of a text: its line breaks, and a last line without
\* one
number_of_lines(t) ==
    Cardinality({ i \in DOMAIN t : t[i] = "\n" })
    + IF t # << >> /\ t[Len(t)] # "\n" THEN 1 ELSE 0

\* C23: in the stream of a scanner every RecordBegin is followed by exactly
\* one RecordEnd before the next RecordBegin or the end of the stream, and
\* no RecordEnd comes before the first RecordBegin, so the counts are
\* equal at the end; the stream has at most three tokens per line of the
\* text plus one; and every call of next() after the first None returns
\* None.
C23_records_begin_and_end ==
    LET begins == positions("RecordBegin")
        ends   == positions("RecordEnd")
        nones  == positions("None")
        after(i) == { j \in begins \cup nones : j > i }
    IN  /\ \A i \in begins :
             LET between == { e \in ends : e > i /\ \A j \in after(i) : e < j }
             IN  IF after(i) # { } THEN Cardinality(between) = 1
                 ELSE Cardinality(between) <= 1
        /\ \A e \in ends : \E i \in begins : i < e
        /\ nones # { } => Cardinality(begins) = Cardinality(ends)
        /\ Cardinality(DOMAIN yielded \ nones) <= 3 * number_of_lines(text) + 1
        /\ \A i \in nones : \A j \in DOMAIN yielded : j > i => j \in nones

\* C23: a scanner with two records, the last one open at the end of the
\* input, was called after it had returned None
C23_witness ==
    /\ Cardinality(positions("RecordBegin")) = 2
    /\ Cardinality(positions("RecordEnd")) = 2
    /\ Cardinality(positions("None")) = MaxNone

\* ------------------------------------------------------------------ labels

\* lines of a dictionary text in the texts of labelled records
MaxLabelLines == 4

\* records with the labels "a", "A", "b" and none, a field of a record and
\* a blank line
LabelLines ==
    { << "\\", "l", " ", "a" >>,
      << "\\", "l", " ", "A" >>,
      << "\\", "l", " ", "b" >>,
      << "\\", "l" >>,
      << "\\", "g", " ", "x" >>,
      << >> }

LabelTexts ==
    LET bodies == UNION { texts_from(LabelLines, n) :
                            n \in 0 .. MaxLabelLines }
    IN  bodies \cup { HeaderLine \o << "\n" >> \o b : b \in bodies }

\* a dictionary grouped by label
LabelConfigs ==
    { [ record_tag |-> << "\\", "l" >>, unique_id |-> FALSE,
        id_tag |-> << "\\", "i" >>, id_spec |-> "sample" ] }

LabelInit == Loading(LabelConfigs, LabelTexts)

LabelNext ==
    \/ expect_toolbox_dictionary_header
    \/ split_orphaned_lines
    \/ record_splitter_token
    \/ record_splitter_result

LabelSpec == LabelInit /\ [][LabelNext]_vars

\* the records of the text, numbered in source order
records_of_text == 1 .. Cardinality(record_starts(text, config.record_tag))

\* the position in the text, and the number, of the tag line of the k-th
\* record
record_at(k) == nth(record_starts(text, config.record_tag), k)
record_line_number(k) ==
    Cardinality({ i \in 1 .. (record_at(k) - 1) : text[i] = "\n" })

\* the label of the k-th record: what follows the tag on its own tag line,
\* without the whitespace around it
record_label_of(k) ==
    LET line == next_line(text, [ at |-> record_at(k) ])
    IN  trim(SubSeq(line, Len(config.record_tag) + 1, Len(line)))

\* the sanitized form of the labels of the texts
sanitized(label) == IF label = << "A" >> THEN << "a" >> ELSE label

\* the path of the object of a sanitized label
path_of_label(key) ==
    IF key = << >> THEN << "invalid", "label_missing.txt" >>
    ELSE << str(key) \o "_", "__", str(key) \o ".txt" >>

\* the bodies of the records from k on whose sanitized label is the key, in
\* source order
RECURSIVE bodies_keyed(_, _)
bodies_keyed(key, k) ==
    IF k \notin records_of_text THEN << >>
    ELSE ( IF sanitized(record_label_of(k)) = key
           THEN << trim_trailing_empty_lines(
                     record_source(text, config.record_tag, k)) >>
           ELSE << >> )
         \o bodies_keyed(key, k + 1)

\* the bodies joined with one line break
RECURSIVE joined_bodies(_)
joined_bodies(bodies) ==
    IF Len(bodies) = 1 THEN bodies[1]
    ELSE bodies[1] \o << "\n" >> \o joined_bodies(Tail(bodies))

\* the diagnostics of a kind
issues_of(kind) == { i \in DOMAIN issues : issues[i].kind = kind }

\* C24: in label mode the object of a sanitized label holds the bodies of
\* exactly the records whose own tag line has that label, in source order;
\* records with equal sanitized labels share one object and raise no
\* diagnostic; the records without a label are in
\* invalid/label_missing.txt and raise one missing-record-label diagnostic
\* each, for their tag line.
C24_record_is_keyed_by_own_label ==
    (phase = "done" /\ ~config.unique_id) =>
      /\ objects \ orphan_object(splitter.orphaned_lines) =
           { [ path    |-> path_of_label(key),
               content |-> joined_bodies(bodies_keyed(key, 1)) ] :
             key \in { sanitized(record_label_of(k)) : k \in records_of_text } }
      /\ \A k \in records_of_text :
           Cardinality({ i \in issues_of("MissingRecordLabel") :
                           issues[i].line = record_line_number(k) })
             = IF record_label_of(k) = << >> THEN 1 ELSE 0
      /\ Cardinality(issues_of("MissingRecordLabel"))
           = Cardinality({ k \in records_of_text :
                             record_label_of(k) = << >> })
      /\ \A i \in DOMAIN issues :
           issues[i].kind \in { "MissingRecordLabel", "UntaggedLine",
                                "LineBeforeFirstRecord",
                                "MissingDictionaryHeader" }

\* C24: the records "a", "b" and "A" were split: the first and the third
\* share an object, the second lies between them
C24_witness ==
    /\ phase = "done"
    /\ Cardinality(records_of_text) >= 3
    /\ record_label_of(1) = << "a" >>
    /\ record_label_of(2) = << "b" >>
    /\ record_label_of(3) = << "A" >>
    /\ Cardinality(objects) = 2

\* ------------------------------------------------------------------ ids of a record

\* lines of a dictionary text in the texts of records with several id lines
MaxIdIssueLines == 5

\* a record line, the id "1", the id "a1" with the namespace "a", an id
\* line whose value is not an id, and an id line without a value
IdIssueLines ==
    { << "\\", "l", " ", "a" >>,
      << "\\", "i", " ", "1" >>,
      << "\\", "i", " ", "a", "1" >>,
      << "\\", "i", " ", "x" >>,
      << "\\", "i" >> }

IdIssueTexts ==
    LET bodies == UNION { texts_from(IdIssueLines, n) :
                            n \in 0 .. MaxIdIssueLines }
    IN  bodies \cup { HeaderLine \o << "\n" >> \o b : b \in bodies }

IdIssueInit == Loading(IdConfigs, IdIssueTexts)

IdIssueNext ==
    \/ expect_toolbox_dictionary_header
    \/ split_orphaned_lines
    \/ id_splitter_token
    \/ id_splitter_result

IdIssueSpec == IdIssueInit /\ [][IdIssueNext]_vars

\* the lines of the text; line n is text_lines[n + 1]
text_lines == lines_of(text)

\* the tag of a line and the trimmed text after it
tag_of(line) == LET ws == find_whitespace(line)
                IN  IF ws = 0 THEN line ELSE SubSeq(line, 1, ws - 1)
value_of(line) == trim(SubSeq(line, Len(tag_of(line)) + 1, Len(line)))

\* the numbers of the record lines among the lines ls, and of the id lines
\* of the records with the record lines rs
record_lines_in(ls) ==
    { n \in 0 .. (Len(ls) - 1) : tag_of(ls[n + 1]) = config.record_tag }
id_lines_in(ls, rs) ==
    { n \in 0 .. (Len(ls) - 1) :
        /\ tag_of(ls[n + 1]) = config.id_tag
        /\ \E r \in rs : r < n }
record_lines == record_lines_in(text_lines)

\* the record a line belongs to
record_of(rs, n) ==
    CHOOSE r \in rs : r <= n /\ \A q \in rs : q <= n => q <= r

\* the values that are ids under the id-spec of the sample configuration
parses(line) == value_of(line) \in { << "1" >>, << "a", "1" >> }

\* the first of the id lines ok (the ones that parse) of the record r, or
\* -1
key_line(rs, ok, r) ==
    LET mine == { n \in ok : record_of(rs, n) = r }
    IN  IF mine = { } THEN -1
        ELSE CHOOSE n \in mine : \A m \in mine : n <= m

\* the body of the record of a record line
body_at(rs, r) ==
    trim_trailing_empty_lines(
        record_source(text, config.record_tag,
                      Cardinality({ q \in rs : q <= r })))

\* the bodies of the records of the record lines sel, in source order,
\* joined with one line break
RECURSIVE joined_records(_, _)
joined_records(rs, sel) ==
    IF sel = { } THEN << >>
    ELSE LET r == CHOOSE q \in sel : \A p \in sel : q <= p
         IN  IF sel = { r } THEN body_at(rs, r)
             ELSE body_at(rs, r) \o << "\n" >>
                  \o joined_records(rs, sel \ { r })

\* the path of the object of an id of the texts
path_of_id(value) ==
    IF value = << "1" >> THEN << "public", "1_", "__", "1.txt" >>
    ELSE << "private", "a", "a1.txt" >>

\* the diagnostics of a kind for a line
issues_at(kind, n) ==
    { i \in DOMAIN issues : issues[i].kind = kind /\ issues[i].line = n }

id_mode_done == phase = "done" /\ config.unique_id

id_missing_object(rs, sel) ==
    [ path |-> << "invalid", "id_missing.txt" >>,
      content |-> joined_records(rs, sel) ]

\* C26 as stated: every id line whose value is not an id raises an
\* invalid-id diagnostic for that line and its record is routed to a
\* reserved bucket; a record without an id raises a missing-id diagnostic
\* and its body goes to invalid/id_missing.txt.
C26_invalid_id_goes_to_bucket ==
    id_mode_done =>
      LET ls  == text_lines
          rs  == record_lines_in(ls)
          ids == id_lines_in(ls, rs)
          ok  == { n \in ids : parses(ls[n + 1]) }
          keyed == { r \in rs : key_line(rs, ok, r) >= 0 }
      IN  /\ \A n \in ids \ ok :
               Cardinality(issues_at("InvalidID", n)) = 1
          /\ \A r \in rs \ keyed :
               Cardinality(issues_at("MissingID", r)) = 1
          /\ id_missing_object(rs,
               (rs \ keyed) \cup { record_of(rs, n) : n \in ids \ ok })
               \in objects

\* C26, amended: every id line of a record whose value is not an id raises
\* exactly one invalid-id diagnostic for that line, and no other line
\* raises one; a record none of whose id lines parses raises exactly one
\* missing-id diagnostic for its record line and its body is in
\* invalid/id_missing.txt, in source order with the other such records; a
\* record with an id line that parses raises no missing-id diagnostic and
\* its body is in the object of that id, also when another of its id lines
\* does not parse.
C26_record_without_id_goes_to_bucket ==
    id_mode_done =>
      LET ls  == text_lines
          rs  == record_lines_in(ls)
          ids == id_lines_in(ls, rs)
          ok  == { n \in ids : parses(ls[n + 1]) }
          key == [ r \in rs |-> key_line(rs, ok, r) ]
          keyed == { r \in rs : key[r] >= 0 }
      IN  /\ \A n \in ids :
               Cardinality(issues_at("InvalidID", n))
                 = IF n \in ok THEN 0 ELSE 1
          /\ \A i \in DOMAIN issues :
               issues[i].kind = "InvalidID" => issues[i].line \in ids
          /\ \A r \in rs :
               Cardinality(issues_at("MissingID", r))
                 = IF r \in keyed THEN 0 ELSE 1
          /\ Cardinality({ i \in DOMAIN issues :
                             issues[i].kind = "MissingID" })
               = Cardinality(rs \ keyed)
          /\ { o \in objects : o.path = << "invalid", "id_missing.txt" >> }
               = { id_missing_object(rs, rs \ keyed) }
          /\ \A r \in keyed :
               \E o \in objects :
                 /\ o.path = path_of_id(value_of(ls[key[r] + 1]))
                 /\ is_infix(body_at(rs, r), o.content)

\* C26: a record with an id and an id line that does not parse, and a
\* record whose only id line does not parse, were split
C26_witness ==
    /\ id_mode_done
    /\ text = << "\\", "l", " ", "a", "\n", "\\", "i", " ", "1", "\n",
                 "\\", "i", " ", "x", "\n", "\\", "l", " ", "a", "\n",
                 "\\", "i", " ", "x", "\n" >>
    /\ Cardinality(objects) = 2

\* ------------------------------------------------------------------ lines before the first record

\* lines of a dictionary text in the texts with lines before the first record
MaxOrphanLines == 4

\* a record line, a tagged line, an untagged line, an empty line and a line
\* of one space
OrphanLines ==
    { << "\\", "l", " ", "a" >>,
      << "\\", "g", " ", "x" >>,
      << "x" >>,
      << >>,
      << " " >> }

OrphanTexts ==
    LET bodies == UNION { texts_from(OrphanLines, n) :
                            n \in 0 .. MaxOrphanLines }
    IN  bodies \cup { HeaderLine \o << "\n" >> \o b : b \in bodies }

\* both variants of split, with the record tag "\l"
OrphanConfigs == { c \in Configs : c.record_tag = << "\\", "l" >> }

OrphanInit == Loading(OrphanConfigs, OrphanTexts)

OrphanNext ==
    \/ expect_toolbox_dictionary_header
    \/ split_orphaned_lines
    \/ record_splitter_token
    \/ record_splitter_result
    \/ id_splitter_token
    \/ id_splitter_result

OrphanSpec == OrphanInit /\ [][OrphanNext]_vars

\* a line of spaces only, or an empty line
blank_line(n) == \A i \in DOMAIN text_lines[n + 1] : text_lines[n + 1][i] = " "

\* the number of the first record line, or the number of lines
first_record_line ==
    IF record_lines = { } THEN Len(text_lines)
    ELSE CHOOSE r \in record_lines : \A q \in record_lines : r <= q

\* the number of the line after the header line, 0 without one
after_header ==
    LET found == { n \in 0 .. (Len(text_lines) - 1) : ~blank_line(n) }
        first == CHOOSE n \in found : \A m \in found : n <= m
    IN  IF found # { } /\ text_lines[first + 1] = HeaderLine
        THEN first + 1 ELSE 0

\* the lines before the first record line, and the ones of them that are
\* tagged or untagged
lines_before_first_record ==
    { n \in after_header .. (first_record_line - 1) : TRUE }
offending_lines == { n \in lines_before_first_record : ~blank_line(n) }

\* the lines before the first record from line n on, as they are
\* collected: a run of blank lines after a line that is not blank is one
\* empty line, blank lines at the start are left out
RECURSIVE collected(_, _)
collected(n, acc) ==
    IF n >= first_record_line THEN acc
    ELSE IF ~blank_line(n) THEN collected(n + 1, Append(acc, text_lines[n + 1]))
    ELSE IF acc # << >> /\ acc[Len(acc)] # << >>
    THEN collected(n + 1, Append(acc, << >>))
    ELSE collected(n + 1, acc)

\* the content of invalid/__.txt: the collected lines, one line break
\* between them and one after the last that is not blank
orphan_content ==
    LET lines  == collected(after_header, << >>)
        joined == joined_bodies(lines)
    IN  IF lines[Len(lines)] = << >> THEN joined ELSE Append(joined, "\n")

\* how often a line occurs in the contents of some objects
RECURSIVE occurrences(_, _)
occurrences(os, line) ==
    IF os = { } THEN 0
    ELSE LET o  == CHOOSE x \in os : TRUE
             ls == lines_of(o.content)
         IN  Cardinality({ i \in DOMAIN ls : ls[i] = line })
             + occurrences(os \ { o }, line)

\* C27: in both variants the tagged and untagged lines before the first
\* record line (after the header line) are collected in source order in
\* invalid/__.txt, which is emitted iff there is such a line; each of them
\* raises exactly one line-before-first-record diagnostic and no other line
\* raises one; the other objects hold each line of the records as often as
\* the records have it, so no line before the first record is in them.
C27_lines_before_first_record ==
    phase = "done" =>
      /\ { o \in objects : o.path = << "invalid", "__.txt" >> } =
           IF offending_lines = { } THEN { }
           ELSE { [ path    |-> << "invalid", "__.txt" >>,
                    content |-> orphan_content ] }
      /\ \A n \in 0 .. (Len(text_lines) - 1) :
           Cardinality(issues_at("LineBeforeFirstRecord", n))
             = IF n \in offending_lines THEN 1 ELSE 0
      /\ \A n \in 0 .. (Len(text_lines) - 1) :
           ~blank_line(n) =>
             occurrences({ o \in objects :
                             o.path # << "invalid", "__.txt" >> },
                         text_lines[n + 1])
               = Cardinality({ m \in first_record_line ..
                                       (Len(text_lines) - 1) :
                                 text_lines[m + 1] = text_lines[n + 1] })

\* C27: a text with the header, a tagged line, a blank line and an
\* untagged line before its first record was split by id
C27_witness ==
    /\ phase = "done"
    /\ config.unique_id
    /\ text = HeaderLine \o
              << "\n", "\\", "g", " ", "x", "\n", " ", "\n", "x", "\n",
                 "\\", "l", " ", "a", "\n" >>
    /\ Cardinality(objects) = 2

\* ------------------------------------------------------------------ empty folders

\* the last diff of a batch is applied: the step deletes the empty folders
\* and returns to stage_changes
batch_ends == pc = "stage_diffs" /\ pc' = "stage_changes"

\* the paths the Deletes of the batch of the current dictionary remove
batch_deleted_paths ==
    { diff.path : diff \in { d \in summaries[Dictionaries[cur]].unstaged_diff :
                               d.kind = "Delete" } }

\* a file or a directory lies in a directory, at any depth
holds_entry(files, ds, dir) ==
    \/ \E f \in DOMAIN files : under(dir, f)
    \/ \E e \in ds : under(dir, e)

\* the turns of the loop of stage_diffs, lines 116-137
RECURSIVE cleanup_turns(_, _, _)
cleanup_turns(files, ds, parents) ==
    IF parents = { } THEN 0
    ELSE LET removable == { q \in parents :
                              /\ q # << >>
                              /\ q \in ds
                              /\ dir_is_empty(files, ds, q) }
         IN  1 + cleanup_turns(files, ds \ removable,
                               { parent(q) : q \in removable })

\* the longest of some paths
longest(paths) ==
    IF paths = { } THEN 0
    ELSE CHOOSE n \in { Len(q) : q \in paths } :
           \A q \in paths : Len(q) <= n

\* C28: when a batch ends, every directory the step removes is a parent
\* directory of a path the batch deleted, is not the working-tree root and
\* holds no file and no directory afterwards (so no directory above a
\* directory that is not empty is removed, and none that holds a file the
\* batch added); no parent directory of a deleted path that is left is
\* empty; and the loop takes at most one turn more than the longest
\* parent path has components.
C28_empty_parents_are_removed ==
    [][ batch_ends =>
          /\ \A d \in dirs \ dirs' :
               /\ d # << >>
               /\ \E q \in batch_deleted_paths : under(d, q)
               /\ ~holds_entry(worktree', dirs', d)
          /\ \A d \in dirs' :
               (\E q \in batch_deleted_paths : under(d, q))
                 => holds_entry(worktree', dirs', d)
          /\ << >> \notin dirs'
          /\ \A f \in DOMAIN worktree' : ancestors(f) \subseteq dirs'
          /\ cleanup_turns(worktree', dirs,
                           { parent(q) : q \in batch_deleted_paths })
               <= 1 + longest({ parent(q) : q \in batch_deleted_paths })
      ]_vars

\* C28: the batch of the first dictionary deleted the only file of
\* d1.contents/x and added or kept a file in d1.contents/y: x was removed,
\* d1.contents was not
C28_witness ==
    /\ pc = "stage_changes"
    /\ cur = 2
    /\ << "d1.contents", "x" >> \in start.dirs
    /\ << "d1.contents", "x" >> \notin dirs
    /\ << "d1.contents", "y" >> \in dirs
    /\ << "d1.contents" >> \in dirs

\* ------------------------------------------------------------------ the written file

\* the Add and Update actions a step of stage_diffs applies
written_in_step == { diff \in todo \ todo' : diff.kind \in { "Add", "Update" } }

\* C29: every Add and Update that stage_diffs applies leaves the bytes of
\* the object in the file <working-tree root>/<object path>, whose parent
\* directories exist and whose path the index holds with these bytes,
\* whatever the current directory is; no step writes a file outside the
\* working tree.
C29_written_in_working_tree ==
    [][ /\ pc = "stage_diffs" /\ pc' # "done" =>
             \A diff \in written_in_step :
               /\ has_path(ignore_case, worktree', diff.clob.path)
               /\ worktree'[stored_key(ignore_case, worktree',
                                       diff.clob.path)] = diff.clob.content
               /\ ancestors(diff.clob.path) \subseteq dirs'
               /\ has_path(ignore_case, index', diff.clob.path)
               /\ index'[stored_key(ignore_case, index', diff.clob.path)]
                    = hash_object(diff.clob.content)
        /\ stray' = stray
      ]_vars

====
